---- MODULE Spec2Model ----
(***************************************************************************)
(* Model of the "Sauvegarde" (cdpfgl) backup server: the file backend      *)
(* (server/file_backend.c) and the request pipeline (server/server.c).     *)
(*                                                                         *)
(* Thirteen specifications share the module:                                  *)
(*   Spec      the request pipeline: POST/GET handlers, the two queues,    *)
(*             the two writer threads, the block store and the journals.   *)
(*   SpecLive  the data path of the pipeline with a fair data thread.      *)
(*   SpecWriters the two queues with both writer threads, fair.            *)
(*   SpecScan  one file-list scan of one journal file through the read     *)
(*             buffer, for every buffer size.                              *)
(*   SpecQuery one file-list scan of a journal while file_store_smeta      *)
(*             appends a record to it.                                     *)
(*   SpecList  file_get_list_of_files: the scan of a journal under a       *)
(*             query, the record decoder, the sort and the reduction to    *)
(*             the latest versions.                                        *)
(*   SpecHttp  the handlers on any request, well-formed or not, with the   *)
(*             data thread.                                                *)
(*   SpecBoot  main from its start to its return, with file_init_backend.  *)
(*   SpecSignal the end of the program on SIGINT and SIGTERM.              *)
(*   SpecPath  the paths of the block files that put, get and exists use.  *)
(*   SpecUpload the callbacks of one POST request, the body in its buffer. *)
(*   SpecStats the callbacks of the requests and the statistics.           *)
(*   SpecRead  the scan of a journal whose reads can fail.                 *)
(* Characters are modelled by their byte values.                           *)
(***************************************************************************)
EXTENDS Integers, Sequences, FiniteSets, TLC

VARIABLES
    dataFile,      \* data/<fan-out>/<hash>      : bytes of the block file, or NoFile
    sidecar,       \* data/<fan-out>/<hash>.meta : [cmptype, uncmplen], or NULL_STRUCT
    journal,       \* meta/<hostname> : the lines appended so far, in file order
    data_queue,    \* server_struct->data_queue
    meta_queue,    \* server_struct->meta_queue
    dt,            \* data_thread: its position and the hash_data_t it holds
    mt,            \* meta_data_thread: its position and the smeta it holds
    answer,        \* the response of the handler that ran in the last step
    hist,          \* history: what was accepted, stored, appended and failed
    scan,          \* the state of one file-list scan (SpecScan, SpecQuery)
    boot,          \* main: its position, its exit code, the directories of the store
    upload,        \* process_post_request: the body of one POST request being received
    http           \* ahc: the requests on the connections and server_struct->stats

vars == <<dataFile, sidecar, journal, data_queue, meta_queue, dt, mt, answer, hist, scan, boot, upload, http>>

----------------------------------------------------------------------------
(* Bounds of the model. *)

NumHashes == 2
NumConns == 2
MaxPosts == 2
MaxList == 3
MaxArray == 2
MaxFaults == 1

Hashes == 1..NumHashes
Conns == 1..NumConns
Hosts == {"alice", "bob"}

\* A file that does not exist, a NULL string and a NULL structure. File content
\* and strings are sequences of bytes (0..255), structures are records.
NoFile == <<-1>>
NULL == <<-1>>
NULL_STRUCT == [null |-> TRUE]

----------------------------------------------------------------------------
(* Generic sequence helpers (GLib list and string primitives). *)

RECURSIVE g_list_reverse(_)
g_list_reverse(s) ==
    IF s = <<>> THEN <<>> ELSE Append(g_list_reverse(Tail(s)), Head(s))

g_list_prepend(list, x) == <<x>> \o list

RECURSIVE g_strconcat(_)
g_strconcat(parts) ==
    IF parts = <<>> THEN <<>> ELSE Head(parts) \o g_strconcat(Tail(parts))

RECURSIVE SeqsUpTo(_, _)
SeqsUpTo(S, n) ==
    IF n = 0 THEN {<<>>}
    ELSE LET shorter == SeqsUpTo(S, n - 1)
         IN shorter \cup {Append(s, x) : s \in {t \in shorter : Len(t) = n - 1}, x \in S}

Range(s) == {s[i] : i \in DOMAIN s}

IsPrefix(s, t) == Len(s) <= Len(t) /\ SubSeq(t, 1, Len(s)) = s

Min(a, b) == IF a < b THEN a ELSE b

\* g_strndup(buf + pos, n)
g_strndup(buf, pos, n) == SubSeq(buf, pos + 1, pos + n)

----------------------------------------------------------------------------
(* Bytes that the journal code tests for or prints. *)

CH_NL == 10
CH_SPACE == 32
CH_QUOTE == 34
CH_COMMA == 44
CH_ZERO == 48
CH_PAD == 61

\* "%d" and G_GUINT64_FORMAT: an unsigned number in decimal digits.
RECURSIVE fmt_uint(_)
fmt_uint(n) ==
    IF n < 10 THEN <<CH_ZERO + n>>
    ELSE Append(fmt_uint(n \div 10), CH_ZERO + (n % 10))

\* The base64 alphabet: A-Z a-z 0-9 + /
B64Alphabet ==
    [i \in 1..26 |-> 64 + i] \o [i \in 1..26 |-> 96 + i] \o
    [i \in 1..10 |-> 47 + i] \o <<43, 47>>

\* g_base64_encode: standard base64 with '=' padding.
RECURSIVE g_base64_encode(_)
g_base64_encode(bytes) ==
    IF bytes = <<>> THEN <<>>
    ELSE LET n  == Len(bytes)
             b0 == bytes[1]
             b1 == IF n >= 2 THEN bytes[2] ELSE 0
             b2 == IF n >= 3 THEN bytes[3] ELSE 0
             c0 == b0 \div 4
             c1 == (b0 % 4) * 16 + (b1 \div 16)
             c2 == (b1 % 16) * 4 + (b2 \div 64)
             c3 == b2 % 64
         IN <<B64Alphabet[c0 + 1], B64Alphabet[c1 + 1],
              IF n >= 2 THEN B64Alphabet[c2 + 1] ELSE CH_PAD,
              IF n >= 3 THEN B64Alphabet[c3 + 1] ELSE CH_PAD>>
            \o (IF n > 3 THEN g_base64_encode(SubSeq(bytes, 4, n)) ELSE <<>>)

\* encode_to_base64: NULL for a NULL string.
encode_to_base64(str) == IF str = NULL THEN NULL ELSE g_base64_encode(str)

----------------------------------------------------------------------------
(* Hashes. A hash is HASH_LEN bytes; the model draws NumHashes of them. *)

HASH_LEN == 32

hash_bytes(h) == [i \in 1..HASH_LEN |-> (h * 37 + i * 11) % 256]

\* convert_hash_data_list_to_gchar: the base64 hashes, each quoted, separated
\* by ", "; NULL for an empty list.
RECURSIVE hash_list_chars(_)
hash_list_chars(list) ==
    LET one == <<CH_QUOTE>> \o g_base64_encode(hash_bytes(Head(list))) \o <<CH_QUOTE>>
    IN IF Len(list) = 1 THEN one
       ELSE one \o <<CH_COMMA, CH_SPACE>> \o hash_list_chars(Tail(list))

convert_hash_data_list_to_gchar(list) ==
    IF list = <<>> THEN NULL ELSE hash_list_chars(list)

----------------------------------------------------------------------------
(* The metadata journal: one line per record (file_store_smeta). *)

SEP == <<CH_COMMA, CH_SPACE>>

quoted(str) == <<CH_QUOTE>> \o str \o <<CH_QUOTE>>

\* The two g_strdup_printf formats of file_store_smeta: thirteen fields
\* separated by ", ", then the hash list when there is one, then '\n'.
journal_line(meta) ==
    LET hash_list  == convert_hash_data_list_to_gchar(meta.hash_data_list)
        name64_raw == encode_to_base64(meta.name)
        link64_raw == encode_to_base64(meta.link)
        name64     == IF name64_raw = NULL THEN <<>> ELSE name64_raw
        link64     == IF link64_raw = NULL THEN <<>> ELSE link64_raw
        fields     == fmt_uint(meta.file_type) \o SEP \o fmt_uint(meta.inode) \o SEP \o
                      fmt_uint(meta.mode) \o SEP \o fmt_uint(meta.atime) \o SEP \o
                      fmt_uint(meta.ctime) \o SEP \o fmt_uint(meta.mtime) \o SEP \o
                      fmt_uint(meta.size) \o SEP \o quoted(meta.owner) \o SEP \o
                      quoted(meta.group) \o SEP \o fmt_uint(meta.uid) \o SEP \o
                      fmt_uint(meta.gid) \o SEP \o quoted(name64) \o SEP \o quoted(link64)
    IN IF hash_list # NULL
       THEN fields \o SEP \o hash_list \o <<CH_NL>>
       ELSE fields \o <<CH_NL>>

\* A meta_data_t that was allocated and not filled.
new_meta_data_t ==
    [file_type |-> 0, inode |-> 0, mode |-> 0, atime |-> 0, ctime |-> 0,
     mtime |-> 0, size |-> 0, owner |-> NULL, group |-> NULL, uid |-> 0,
     gid |-> 0, name |-> NULL, link |-> NULL, hash_data_list |-> <<>>]

\* A meta_data_t as convert_json_to_smeta_data builds it from a POST body.
mk_meta(owner, name, mtime, hash_data_list) ==
    [file_type |-> 1, inode |-> 23, mode |-> 4, atime |-> 5, ctime |-> 6,
     mtime |-> mtime, size |-> 7, owner |-> owner, group |-> <<103>>,
     uid |-> 8, gid |-> 9, name |-> name, link |-> <<>>,
     hash_data_list |-> hash_data_list]

----------------------------------------------------------------------------
(* The block store (file_backend.c). *)

COMPRESS_NONE_TYPE == 0
COMPRESS_ZLIB_TYPE == 1

is_compress_type_allowed(cmptype) ==
    cmptype \in {COMPRESS_NONE_TYPE, COMPRESS_ZLIB_TYPE}

\* g_file_query_exists on the block's data file.
g_file_query_exists(files, h) == files[h] # NoFile

hash_data_is_in_list(h, list) == h \in Range(list)

\* The while loop of file_build_needed_hash_list: a hash is prepended when its
\* file does not exist and it is not yet in the needed list.
RECURSIVE build_needed_loop(_, _, _)
build_needed_loop(files, head, needed) ==
    IF head = <<>> THEN needed
    ELSE LET hash == Head(head)
         IN build_needed_loop(files, Tail(head),
                IF ~g_file_query_exists(files, hash) /\ ~hash_data_is_in_list(hash, needed)
                THEN g_list_prepend(needed, hash)
                ELSE needed)

\* Variant: the existence of the block's file is not looked at.
file_build_needed_hash_list_no_exists(files, hash_data_list) ==
    g_list_reverse(build_needed_loop([h \in Hashes |-> NoFile], hash_data_list, <<>>))

\* Variant: the list is returned as the loop built it, without g_list_reverse.
file_build_needed_hash_list_no_reverse(files, hash_data_list) ==
    build_needed_loop(files, hash_data_list, <<>>)

\* Variant: a hash whose block waits in the data queue counts as stored.
file_build_needed_hash_list_sees_queue(files, hash_data_list) ==
    g_list_reverse(build_needed_loop(
        [h \in Hashes |->
            IF \E i \in DOMAIN data_queue : data_queue[i].hash_data.hash = h
            THEN <<>> ELSE files[h]],
        hash_data_list, <<>>))

file_build_needed_hash_list(files, hash_data_list) ==
    g_list_reverse(build_needed_loop(files, hash_data_list, <<>>))

\* find_needed_hashs: the backend's answer (the file backend always has the
\* function), converted to the JSON array.
find_needed_hashs(files, hash_data_list) ==
    file_build_needed_hash_list(files, hash_data_list)

\* set_metadata_to_file_meta: the sidecar's content for a block.
set_metadata_to_file_meta(uncmplen, cmptype) ==
    [cmptype  |-> IF is_compress_type_allowed(cmptype) THEN cmptype
                  ELSE COMPRESS_NONE_TYPE,
     uncmplen |-> uncmplen]

get_cmptype_from_file_meta(side, h) ==
    LET cmptype == IF side[h] # NULL_STRUCT THEN side[h].cmptype ELSE COMPRESS_NONE_TYPE
    IN IF is_compress_type_allowed(cmptype) THEN cmptype ELSE COMPRESS_NONE_TYPE

\* Variant: the sidecar's uncmplen key is never read.
get_uncmplen_default(side, h) == 0

get_uncmplen_from_file_meta(side, h) ==
    IF side[h] # NULL_STRUCT THEN side[h].uncmplen ELSE 0

\* file_retrieve_data: NULL when the data file cannot be opened.
file_retrieve_data(files, side, h) ==
    LET cmptype == get_cmptype_from_file_meta(side, h)
    IN IF files[h] = NoFile THEN NULL_STRUCT
       ELSE [hash |-> h, data |-> files[h], read |-> Len(files[h]),
             cmptype |-> cmptype, uncmplen |-> get_uncmplen_from_file_meta(side, h)]

\* get_data_from_a_specific_hash: the block as JSON, or the error envelope.
get_data_from_a_specific_hash(files, side, h) ==
    LET hash_data == file_retrieve_data(files, side, h)
    IN IF hash_data = NULL_STRUCT
       THEN [route |-> "GET /Data", hash |-> h, error_code |-> 500] \* MHD_HTTP_INTERNAL_SERVER_ERROR
       ELSE [route |-> "GET /Data", hash |-> h, block |-> hash_data]

----------------------------------------------------------------------------
(* The request pipeline (server.c): inputs. *)

\* The blocks a client may post for a hash: uncompressed, compressed, and
\* with a compression type that is not an allowed one; and a block that
\* came without data.
Blocks ==
    {[hash |-> h, data |-> <<h, h + 2>>, read |-> 2,
      cmptype |-> COMPRESS_NONE_TYPE, uncmplen |-> 2] : h \in Hashes}
    \cup
    {[hash |-> h, data |-> <<h + 100>>, read |-> 1,
      cmptype |-> c, uncmplen |-> 2] : h \in Hashes, c \in {COMPRESS_ZLIB_TYPE, 7}}
    \cup
    {[hash |-> 1, data |-> NULL, read |-> 0,
      cmptype |-> COMPRESS_NONE_TYPE, uncmplen |-> 0]}

HashLists == SeqsUpTo(Hashes, MaxList)

\* The arrays of POST /Data_Array.json: uncompressed blocks.
BlockLists == SeqsUpTo({b \in Blocks : b.cmptype = COMPRESS_NONE_TYPE}, MaxArray)

AllHashes == [i \in 1..NumHashes |-> i]

\* The records of POST /Meta.json: owner "o", name "/a"; an empty file and a
\* file of NumHashes blocks.
PostedMetas ==
    {mk_meta(<<111>>, <<47, 97>>, 1000, <<>>),
     mk_meta(<<111>>, <<47, 97>>, 2000, AllHashes)}

\* Variant: a queue of capacity one.
g_async_queue_bounded(queue) == Len(queue) < 1

\* g_async_queue_new creates a queue without a capacity: a push never waits.
g_async_queue_can_push(queue) == TRUE

g_async_queue_push(queue, item) == Append(queue, item)

\* No handler ran in the last step: its response has been sent and freed.
NoAnswer == [route |-> "none"]

\* main has started the threads and the daemon and is in g_main_loop_run.
BootRunning == [pc |-> "running"]

\* No POST request is being received.
NoUpload == [pc |-> "none"]

\* No request is counted: the statistics are left out.
NoHttp == [pc |-> "none"]

Running == boot = BootRunning /\ upload = NoUpload /\ http = NoHttp

ExistingHashes == {h \in Hashes : g_file_query_exists(dataFile, h)}

InitPipeline ==
    /\ dataFile = [h \in Hashes |-> NoFile]
    /\ sidecar = [h \in Hashes |-> NULL_STRUCT]
    /\ journal = [host \in Hosts |-> <<>>]
    /\ data_queue = <<>>
    /\ meta_queue = <<>>
    /\ dt = [pc |-> "pop"]
    /\ mt = [pc |-> "pop"]
    /\ answer = NoAnswer
    /\ hist = [posts |-> 0, blocks |-> 0,
               accepted |-> [host \in Hosts |-> 0],
               journal_src |-> [host \in Hosts |-> <<>>],
               stored |-> <<>>, freed |-> <<>>, faults |-> 0,
               data_errors |-> 0, meta_errors |-> 0]

----------------------------------------------------------------------------
(* The POST and GET handlers. *)

MHD_HTTP_OK == 200
MHD_HTTP_BAD_REQUEST == 400
MHD_HTTP_NOT_FOUND == 404
MHD_HTTP_INTERNAL_SERVER_ERROR == 500

CT_JSON == "application/json; charset=utf-8"
CT_PLAIN == "text/plain; charset=utf-8"

\* answer_json_error_string: the error envelope {code, reason}.
answer_json_error_string(route, code) == [route |-> route, error_code |-> code]

\* create_MHD_response: the answer is queued with its content type and the
\* status MHD_HTTP_OK.
create_MHD_response(an_answer, content_type) ==
    an_answer @@ [http_status |-> MHD_HTTP_OK, content_type |-> content_type]

\* answer_meta_json_post_request, on connection c.
PostMeta(c, hostname, meta, data_sent) ==
    /\ hist.posts < MaxPosts
    /\ g_async_queue_can_push(meta_queue)
    /\ LET smeta == [hostname |-> hostname, meta |-> meta, data_sent |-> data_sent,
                     conn |-> c, id |-> hist.posts + 1]
           array == IF data_sent = FALSE
                    THEN find_needed_hashs(dataFile, meta.hash_data_list)
                    ELSE <<>>
       IN /\ answer' = create_MHD_response(
                           [route |-> "POST /Meta.json", request |-> meta.hash_data_list,
                            data_sent |-> data_sent, hash_list |-> array,
                            existing |-> ExistingHashes], CT_JSON)
          /\ meta_queue' = g_async_queue_push(meta_queue, smeta)
          /\ hist' = [hist EXCEPT !.posts = @ + 1, !.accepted[hostname] = @ + 1]
    /\ UNCHANGED <<dataFile, sidecar, journal, data_queue, dt, mt, scan, boot, upload, http>>

\* Variant: the handler creates the file of every hash it answers as needed.
PostHashArrayCreates(hash_data_list) ==
    /\ answer' = create_MHD_response(
                      [route |-> "POST /Hash_Array.json", request |-> hash_data_list,
                       data_sent |-> FALSE,
                       hash_list |-> find_needed_hashs(dataFile, hash_data_list),
                       existing |-> ExistingHashes], CT_JSON)
    /\ dataFile' = [h \in Hashes |->
                        IF h \in Range(hash_data_list) /\ dataFile[h] = NoFile
                        THEN <<>> ELSE dataFile[h]]
    /\ UNCHANGED <<sidecar, journal, data_queue, meta_queue, dt, mt, hist, scan, boot, upload, http>>

\* answer_hash_array_post_request
PostHashArray(hash_data_list) ==
    /\ answer' = create_MHD_response(
                      [route |-> "POST /Hash_Array.json", request |-> hash_data_list,
                       data_sent |-> FALSE,
                       hash_list |-> find_needed_hashs(dataFile, hash_data_list),
                       existing |-> ExistingHashes], CT_JSON)
    /\ UNCHANGED <<dataFile, sidecar, journal, data_queue, meta_queue, dt, mt, hist, scan, boot, upload, http>>

\* The while loop of answer_data_array_post_request: every block is pushed.
RECURSIVE push_all(_, _, _)
push_all(queue, list, id) ==
    IF list = <<>> THEN queue
    ELSE push_all(g_async_queue_push(queue, [hash_data |-> Head(list), id |-> id]),
                  Tail(list), id + 1)

\* Variant: the handler writes the block's file itself.
PostDataStores(hash_data) ==
    /\ hist.posts < MaxPosts
    /\ hash_data.data # NULL
    /\ dataFile' = [dataFile EXCEPT ![hash_data.hash] = hash_data.data]
    /\ answer' = create_MHD_response(
                      [route |-> "POST /Data.json", status |-> MHD_HTTP_OK], CT_PLAIN)
    /\ hist' = [hist EXCEPT !.posts = @ + 1, !.blocks = @ + 1]
    /\ UNCHANGED <<sidecar, journal, data_queue, meta_queue, dt, mt, scan, boot, upload, http>>

\* answer_data_post_request
PostData(hash_data) ==
    /\ hist.posts < MaxPosts
    /\ g_async_queue_can_push(data_queue)
    /\ data_queue' = g_async_queue_push(data_queue,
                        [hash_data |-> hash_data, id |-> hist.blocks + 1])
    /\ answer' = create_MHD_response(
                      [route |-> "POST /Data.json", status |-> MHD_HTTP_OK], CT_PLAIN)
    /\ hist' = [hist EXCEPT !.posts = @ + 1, !.blocks = @ + 1]
    /\ UNCHANGED <<dataFile, sidecar, journal, meta_queue, dt, mt, scan, boot, upload, http>>

\* answer_data_array_post_request
PostDataArray(hash_data_list) ==
    /\ hist.posts < MaxPosts
    /\ g_async_queue_can_push(data_queue)
    /\ data_queue' = push_all(data_queue, hash_data_list, hist.blocks + 1)
    /\ answer' = create_MHD_response(
                      [route |-> "POST /Data_Array.json", status |-> MHD_HTTP_OK], CT_PLAIN)
    /\ hist' = [hist EXCEPT !.posts = @ + 1, !.blocks = @ + Len(hash_data_list)]
    /\ UNCHANGED <<dataFile, sidecar, journal, meta_queue, dt, mt, scan, boot, upload, http>>

\* GET /Data/<hex>.json: get_data_from_a_specific_hash
GetData(h) ==
    /\ answer' = create_MHD_response(
                      get_data_from_a_specific_hash(dataFile, sidecar, h), CT_JSON)
    /\ UNCHANGED <<dataFile, sidecar, journal, data_queue, meta_queue, dt, mt, hist, scan, boot, upload, http>>

----------------------------------------------------------------------------
(* The handlers on requests that are not what a client of this server
   sends: any url, any body. get_debug_mode() is FALSE. *)

CH_DOT == 46
CH_LOWER_A == 97

IsHex(c) == (c >= CH_ZERO /\ c <= CH_ZERO + 9) \/ (c >= CH_LOWER_A /\ c <= CH_LOWER_A + 5)

hex_digit(n) == IF n < 10 THEN CH_ZERO + n ELSE CH_LOWER_A + (n - 10)

\* The hash in hex format: HASH_LEN * 2 characters.
hash_to_string(h) ==
    [i \in 1..(HASH_LEN * 2) |->
        LET byte == hash_bytes(h)[(i + 1) \div 2]
        IN IF i % 2 = 1 THEN hex_digit(byte \div 16) ELSE hex_digit(byte % 16)]

\* The url of GET /Data/<segment>.json after "/Data/".
DOT_JSON == <<CH_DOT, 106, 115, 111, 110>>

\* Variant: the string is left as it is.
g_strcanon_keeps(string) == string

\* g_strcanon(string, "abcdef0123456789", '\0'): every other character
\* becomes a NUL, so that the string ends at the first of them.
g_strcanon(string) ==
    LET others == {i \in DOMAIN string : ~IsHex(string[i])}
    IN IF others = {} THEN string
       ELSE SubSeq(string, 1, (CHOOSE i \in others : \A j \in others : i <= j) - 1)

\* The hex format of every hash of a client.
HexHashes == [h \in Hashes |-> hash_to_string(h)]

\* The hash that a hex string names: one of Hashes, or 0 for a hash that no
\* client has posted.
hash_of_string(hash) ==
    IF \E h \in Hashes : HexHashes[h] = hash
    THEN CHOOSE h \in Hashes : HexHashes[h] = hash
    ELSE 0

\* get_json_answer for a url that starts with "/Data/": the hash is the
\* first HASH_LEN * 2 characters after it, up to the first character that
\* is not a hex digit; retrieve_data tells whether the backend was asked.
get_json_answer_data(files, side, segment) ==
    LET url_tail == segment \o DOT_JSON
        hash == g_strcanon(g_strndup(url_tail, 0, Min(HASH_LEN * 2, Len(url_tail))))
        h == hash_of_string(hash)
    IN IF Len(hash) = HASH_LEN * 2
       THEN (IF h = 0
             THEN [route |-> "GET /Data", hash |-> h, error_code |-> 500]
             ELSE get_data_from_a_specific_hash(files, side, h))
            @@ [segment |-> segment, retrieve_data |-> TRUE]
       ELSE answer_json_error_string("GET /Data", MHD_HTTP_BAD_REQUEST)
            @@ [segment |-> segment, retrieve_data |-> FALSE]

\* GET /Data/<segment>.json
GetDataUrl(segment) ==
    /\ answer' = create_MHD_response(
                      get_json_answer_data(dataFile, sidecar, segment), CT_JSON)
    /\ UNCHANGED <<dataFile, sidecar, journal, data_queue, meta_queue, dt, mt, hist, scan, boot, upload, http>>

\* GET /File/List.json without a hostname argument: get_a_list_of_files.
GetFileListNoHostname ==
    /\ answer' = create_MHD_response(
                      answer_json_error_string("GET /File/List.json", MHD_HTTP_BAD_REQUEST),
                      CT_JSON)
    /\ UNCHANGED <<dataFile, sidecar, journal, data_queue, meta_queue, dt, mt, hist, scan, boot, upload, http>>

\* GET of a url that no branch knows: get_json_answer when the url ends in
\* ".json", get_unformatted_answer otherwise (a text, no envelope).
GetUnknown(json) ==
    /\ answer' = IF json
                 THEN create_MHD_response(
                          answer_json_error_string("GET unknown", MHD_HTTP_NOT_FOUND)
                              @@ [json_url |-> json], CT_JSON)
                 ELSE create_MHD_response([route |-> "GET unknown", text |-> "invalid url",
                                           json_url |-> json], CT_PLAIN)
    /\ UNCHANGED <<dataFile, sidecar, journal, data_queue, meta_queue, dt, mt, hist, scan, boot, upload, http>>

\* POST to a url that process_received_data does not know; json tells
\* whether the url ends in ".json".
PostUnknown(json) ==
    /\ answer' = create_MHD_response(
                      answer_json_error_string("POST unknown", MHD_HTTP_BAD_REQUEST)
                          @@ [json_url |-> json], CT_PLAIN)
    /\ UNCHANGED <<dataFile, sidecar, journal, data_queue, meta_queue, dt, mt, hist, scan, boot, upload, http>>

\* The bodies that are no request of the protocol: a text that is no JSON,
\* and the JSON object without any key.
InvalidBodies == {"not json", "{}"}

\* load_json: NULL when json_loads fails.
load_json(json_str) == IF json_str = "not json" THEN NULL_STRUCT ELSE [keys |-> {}]

\* convert_json_to_smeta_data: NULL when load_json fails; else the keys that
\* are found are copied, the others keep the value of a new structure.
convert_json_to_smeta_data(json_str, id) ==
    IF load_json(json_str) = NULL_STRUCT THEN NULL_STRUCT
    ELSE [hostname |-> NULL, meta |-> new_meta_data_t, data_sent |-> FALSE,
          conn |-> 0, id |-> id]

\* convert_string_to_hash_data of a text that holds no block.
convert_string_to_hash_data(received_data) == NULL_STRUCT

\* g_async_queue_push: g_return_if_fail(data) for a NULL item.
g_async_queue_push_checked(queue, item) ==
    IF item = NULL_STRUCT THEN queue ELSE g_async_queue_push(queue, item)

\* answer_meta_json_post_request on a body that is no metadata record.
PostMetaInvalid(received_data) ==
    /\ hist.posts < MaxPosts
    /\ LET smeta == convert_json_to_smeta_data(received_data, hist.posts + 1)
       IN IF smeta # NULL_STRUCT
          THEN /\ answer' = create_MHD_response(
                                [route |-> "POST /Meta.json", request |-> <<>>,
                                 data_sent |-> FALSE,
                                 hash_list |-> find_needed_hashs(dataFile, <<>>),
                                 existing |-> ExistingHashes,
                                 received_data |-> received_data], CT_JSON)
               /\ meta_queue' = g_async_queue_push(meta_queue, smeta)
          ELSE /\ answer' = create_MHD_response(
                                answer_json_error_string("POST /Meta.json",
                                                         MHD_HTTP_INTERNAL_SERVER_ERROR)
                                    @@ [received_data |-> received_data], CT_JSON)
               /\ UNCHANGED meta_queue
    /\ hist' = [hist EXCEPT !.posts = @ + 1]
    /\ UNCHANGED <<dataFile, sidecar, journal, data_queue, dt, mt, scan, boot, upload, http>>

\* answer_hash_array_post_request on a body that holds no hash_list: the
\* list is empty.
PostHashArrayInvalid(received_data) ==
    /\ answer' = create_MHD_response(
                      [route |-> "POST /Hash_Array.json", request |-> <<>>,
                       data_sent |-> FALSE,
                       hash_list |-> find_needed_hashs(dataFile, <<>>),
                       existing |-> ExistingHashes,
                       received_data |-> received_data], CT_JSON)
    /\ UNCHANGED <<dataFile, sidecar, journal, data_queue, meta_queue, dt, mt, hist, scan, boot, upload, http>>

\* answer_data_post_request on a body that holds no block.
PostDataInvalid(received_data) ==
    /\ hist.posts < MaxPosts
    /\ data_queue' = g_async_queue_push_checked(data_queue,
                          convert_string_to_hash_data(received_data))
    /\ answer' = create_MHD_response(
                      [route |-> "POST /Data.json", status |-> MHD_HTTP_OK,
                       received_data |-> received_data], CT_PLAIN)
    /\ hist' = [hist EXCEPT !.posts = @ + 1]
    /\ UNCHANGED <<dataFile, sidecar, journal, meta_queue, dt, mt, scan, boot, upload, http>>

\* answer_data_array_post_request on a body that holds no data_array: the
\* list is empty, the loop pushes nothing.
PostDataArrayInvalid(received_data) ==
    /\ hist.posts < MaxPosts
    /\ data_queue' = push_all(data_queue, <<>>, hist.blocks + 1)
    /\ answer' = create_MHD_response(
                      [route |-> "POST /Data_Array.json", status |-> MHD_HTTP_OK,
                       received_data |-> received_data], CT_PLAIN)
    /\ hist' = [hist EXCEPT !.posts = @ + 1]
    /\ UNCHANGED <<dataFile, sidecar, journal, meta_queue, dt, mt, scan, boot, upload, http>>

----------------------------------------------------------------------------
(* data_thread: pop a block, file_store_data, again. *)

\* Variant: the newest item leaves the queue.
g_async_queue_pop_newest(queue) ==
    [item |-> queue[Len(queue)], rest |-> SubSeq(queue, 1, Len(queue) - 1)]

\* g_async_queue_pop: the oldest item leaves the queue.
g_async_queue_pop(queue) == [item |-> Head(queue), rest |-> Tail(queue)]

DataThreadPop ==
    /\ dt.pc = "pop"
    /\ data_queue # <<>>
    /\ dt' = [pc |-> "set_metadata", item |-> g_async_queue_pop(data_queue).item]
    /\ data_queue' = g_async_queue_pop(data_queue).rest
    /\ UNCHANGED <<dataFile, sidecar, journal, meta_queue, mt, hist, scan, boot, upload, http>>
    /\ answer' = NoAnswer

\* file_store_data, first write: the .meta sidecar.
StoreSetMetadata ==
    /\ dt.pc = "set_metadata"
    /\ dt.item.hash_data.data # NULL
    /\ LET hash_data == dt.item.hash_data
       IN sidecar' = [sidecar EXCEPT ![hash_data.hash] =
                         set_metadata_to_file_meta(hash_data.uncmplen, hash_data.cmptype)]
    /\ dt' = [dt EXCEPT !.pc = "replace"]
    /\ UNCHANGED <<dataFile, journal, data_queue, meta_queue, mt, hist, scan, boot, upload, http>>
    /\ answer' = NoAnswer

\* file_store_data on a block without data: the error is printed, nothing is
\* written.
StoreNoData ==
    /\ dt.pc = "set_metadata"
    /\ dt.item.hash_data.data = NULL
    /\ dt' = [pc |-> "pop"]
    /\ hist' = [hist EXCEPT !.data_errors = @ + 1]
    /\ UNCHANGED <<dataFile, sidecar, journal, data_queue, meta_queue, mt, scan, boot, upload, http>>
    /\ answer' = NoAnswer

\* Variant: the data file is truncated when it is opened.
StoreReplaceTruncates ==
    /\ dt.pc = "replace"
    /\ dataFile' = [dataFile EXCEPT ![dt.item.hash_data.hash] = <<>>]
    /\ dt' = [dt EXCEPT !.pc = "write"]
    /\ UNCHANGED <<sidecar, journal, data_queue, meta_queue, mt, hist, scan, boot, upload, http>>
    /\ answer' = NoAnswer

\* file_store_data, g_file_replace succeeds: a file that does not exist is
\* created empty; an existing file keeps its content until the close.
StoreReplace ==
    /\ dt.pc = "replace"
    /\ LET h == dt.item.hash_data.hash
       IN dataFile' = [dataFile EXCEPT ![h] = IF @ = NoFile THEN <<>> ELSE @]
    /\ dt' = [dt EXCEPT !.pc = "write"]
    /\ UNCHANGED <<sidecar, journal, data_queue, meta_queue, mt, hist, scan, boot, upload, http>>
    /\ answer' = NoAnswer

\* Variant: a g_file_replace that fails removes the file.
StoreReplaceFailsUnlinks ==
    /\ dt.pc = "replace"
    /\ hist.faults < MaxFaults
    /\ dataFile' = [dataFile EXCEPT ![dt.item.hash_data.hash] = NoFile]
    /\ dt' = [pc |-> "pop"]
    /\ hist' = [hist EXCEPT !.faults = @ + 1, !.data_errors = @ + 1]
    /\ UNCHANGED <<sidecar, journal, data_queue, meta_queue, mt, scan, boot, upload, http>>
    /\ answer' = NoAnswer

\* Variant: data_thread returns when file_store_data has failed.
StoreReplaceFailsStops ==
    /\ dt.pc = "replace"
    /\ hist.faults < MaxFaults
    /\ dt' = [dt EXCEPT !.pc = "stopped"]
    /\ hist' = [hist EXCEPT !.faults = @ + 1, !.data_errors = @ + 1]
    /\ UNCHANGED <<dataFile, sidecar, journal, data_queue, meta_queue, mt, scan, boot, upload, http>>
    /\ answer' = NoAnswer

\* file_store_data, g_file_replace fails (stream == NULL): the error is
\* printed and the function returns.
StoreReplaceFails ==
    /\ dt.pc = "replace"
    /\ hist.faults < MaxFaults
    /\ dt' = [pc |-> "pop"]
    /\ hist' = [hist EXCEPT !.faults = @ + 1, !.data_errors = @ + 1]
    /\ UNCHANGED <<dataFile, sidecar, journal, data_queue, meta_queue, mt, scan, boot, upload, http>>
    /\ answer' = NoAnswer

\* Variant: the write stops one byte short.
StoreWriteShort ==
    /\ dt.pc = "write"
    /\ LET hash_data == dt.item.hash_data
       IN dataFile' = [dataFile EXCEPT ![hash_data.hash] =
                          SubSeq(hash_data.data, 1, hash_data.read - 1)]
    /\ hist' = [hist EXCEPT !.stored = Append(@, dt.item),
                            !.freed = Append(@, dt.item.id)]
    /\ dt' = [pc |-> "pop"]
    /\ UNCHANGED <<sidecar, journal, data_queue, meta_queue, mt, scan, boot, upload, http>>
    /\ answer' = NoAnswer

\* file_store_data, g_output_stream_write and close: the file holds the
\* block's `read` bytes; the block's data, its hash and the block are freed
\* (hist.freed).
StoreWrite ==
    /\ dt.pc = "write"
    /\ LET hash_data == dt.item.hash_data
       IN dataFile' = [dataFile EXCEPT ![hash_data.hash] =
                          SubSeq(hash_data.data, 1, hash_data.read)]
    /\ hist' = [hist EXCEPT !.stored = Append(@, dt.item),
                            !.freed = Append(@, dt.item.id)]
    /\ dt' = [pc |-> "pop"]
    /\ UNCHANGED <<sidecar, journal, data_queue, meta_queue, mt, scan, boot, upload, http>>
    /\ answer' = NoAnswer

----------------------------------------------------------------------------
(* meta_data_thread: pop a record, file_store_smeta, free it, again. *)

MetaThreadPop ==
    /\ mt.pc = "pop"
    /\ meta_queue # <<>>
    /\ mt' = [pc |-> "store", smeta |-> g_async_queue_pop(meta_queue).item]
    /\ meta_queue' = g_async_queue_pop(meta_queue).rest
    /\ UNCHANGED <<dataFile, sidecar, journal, data_queue, dt, hist, scan, boot, upload, http>>
    /\ answer' = NoAnswer

\* Variant: the journal is replaced by the new line.
FileStoreSmetaReplaces ==
    /\ mt.pc = "store"
    /\ LET smeta == mt.smeta
       IN /\ journal' = [journal EXCEPT ![smeta.hostname] = <<journal_line(smeta.meta)>>]
          /\ hist' = [hist EXCEPT !.journal_src[smeta.hostname] = Append(@, smeta)]
    /\ mt' = [pc |-> "pop"]
    /\ UNCHANGED <<dataFile, sidecar, data_queue, meta_queue, dt, scan, boot, upload, http>>
    /\ answer' = NoAnswer

\* file_store_smeta: g_file_append_to, one g_output_stream_write of the line.
FileStoreSmeta ==
    /\ mt.pc = "store"
    /\ LET smeta == mt.smeta
       IN /\ journal' = [journal EXCEPT ![smeta.hostname] =
                            Append(@, journal_line(smeta.meta))]
          /\ hist' = [hist EXCEPT !.journal_src[smeta.hostname] =
                            Append(@, smeta)]
    /\ mt' = [pc |-> "pop"]
    /\ UNCHANGED <<dataFile, sidecar, data_queue, meta_queue, dt, scan, boot, upload, http>>
    /\ answer' = NoAnswer

\* file_store_smeta, g_file_append_to fails (stream == NULL): nothing is
\* written; meta_data_thread frees the record.
FileStoreSmetaFails ==
    /\ mt.pc = "store"
    /\ hist.faults < MaxFaults
    /\ mt' = [pc |-> "pop"]
    /\ hist' = [hist EXCEPT !.faults = @ + 1, !.meta_errors = @ + 1]
    /\ UNCHANGED <<dataFile, sidecar, journal, data_queue, meta_queue, dt, scan, boot, upload, http>>
    /\ answer' = NoAnswer

----------------------------------------------------------------------------
(* The pipeline's specification. *)

ScanIdle == [pc |-> "idle"]

Init == InitPipeline /\ Running /\ scan = ScanIdle

Next ==
    \/ \E c \in Conns, hostname \in Hosts, meta \in PostedMetas, data_sent \in BOOLEAN :
           PostMeta(c, hostname, meta, data_sent)
    \/ \E hash_data_list \in HashLists : PostHashArray(hash_data_list)
    \/ \E hash_data \in Blocks : PostData(hash_data)
    \/ \E hash_data_list \in BlockLists : PostDataArray(hash_data_list)
    \/ \E h \in Hashes : GetData(h)
    \/ DataThreadPop
    \/ StoreSetMetadata
    \/ StoreNoData
    \/ StoreReplace
    \/ StoreReplaceFails
    \/ StoreWrite
    \/ MetaThreadPop
    \/ FileStoreSmeta
    \/ FileStoreSmetaFails

Spec == Init /\ [][Next]_vars

\* The data thread keeps running: every step of data_thread that can be
\* taken is eventually taken (the thread is an endless loop of its own).
DataThreadFairness ==
    /\ WF_vars(DataThreadPop)
    /\ WF_vars(StoreSetMetadata)
    /\ WF_vars(StoreNoData)
    /\ WF_vars(StoreReplace)
    /\ WF_vars(StoreWrite)

\* The data path alone: the requests that post and get blocks, and the
\* data thread.
NextData ==
    \/ \E hash_data \in Blocks : PostData(hash_data)
    \/ \E hash_data_list \in BlockLists : PostDataArray(hash_data_list)
    \/ \E h \in Hashes : GetData(h)
    \/ DataThreadPop
    \/ StoreSetMetadata
    \/ StoreNoData
    \/ StoreReplace
    \/ StoreReplaceFails
    \/ StoreWrite

SpecLive == Init /\ [][NextData]_vars /\ DataThreadFairness

\* The meta-data thread keeps running as well (the while (TRUE) of
\* meta_data_thread).
MetaThreadFairness ==
    /\ WF_vars(MetaThreadPop)
    /\ WF_vars(FileStoreSmeta)

\* The record of an empty file, as in PostedMetas.
EmptyFileMeta == mk_meta(<<111>>, <<47, 97>>, 1000, <<>>)

\* The two queues and their writers: the requests that enqueue, and both
\* threads with the failures of their writes.
NextWriters ==
    \/ \E c \in Conns : PostMeta(c, "alice", EmptyFileMeta, TRUE)
    \/ \E hash_data \in Blocks : PostData(hash_data)
    \/ \E hash_data_list \in BlockLists : PostDataArray(hash_data_list)
    \/ DataThreadPop
    \/ StoreSetMetadata
    \/ StoreNoData
    \/ StoreReplace
    \/ StoreReplaceFails
    \/ StoreWrite
    \/ MetaThreadPop
    \/ FileStoreSmeta
    \/ FileStoreSmetaFails

SpecWriters ==
    Init /\ [][NextWriters]_vars /\ DataThreadFairness /\ MetaThreadFairness

----------------------------------------------------------------------------
(* The file-list scan of a journal (file_backend.c): buffer_t, read_one_buffer,
   extract_one_line_from_buffer, get_file_list_from_regex_and_query.
   x is the buffer_t (buf, size, pos, the stream's offset) together with the
   locals of extract_one_line_from_buffer (i, comma, end, in_string,
   whole_line). Strings hold no NUL byte. *)

MaxBufferLog == 8
MaxScanLines == 3

RECURSIVE Pow2(_)
Pow2(k) == IF k = 0 THEN 1 ELSE 2 * Pow2(k - 1)

\* The values of FILE_BACKEND_BUFFER_SIZE the scan is run with.
BufferSizes == {Pow2(k) : k \in 0..MaxBufferLog}

\* A line ends at a '\n' outside quotes once this many commas were counted.
MIN_COMMAS == 12

pipeline_vars ==
    <<dataFile, sidecar, journal, data_queue, meta_queue, dt, mt, answer, hist, boot, upload, http>>

init_buffer_structure(buffer_size) ==
    [buf |-> <<>>, size |-> 0, pos |-> 0, offset |-> 0, buffer_size |-> buffer_size,
     i |-> 0, comma |-> 0, end |-> FALSE, in_string |-> FALSE, whole_line |-> NULL]

\* read_one_buffer: g_input_stream_read of at most FILE_BACKEND_BUFFER_SIZE
\* bytes at the stream's offset; pos = 0.
read_one_buffer(x, file) ==
    LET n == Min(x.buffer_size, Len(file) - x.offset)
    IN [x EXCEPT !.buf = SubSeq(file, x.offset + 1, x.offset + n),
                 !.size = n, !.pos = 0, !.offset = x.offset + n]

\* extract_one_line_from_buffer, entry: the locals are initialised.
extract_begin(x) ==
    [x EXCEPT !.i = x.pos, !.comma = 0, !.end = FALSE, !.in_string = FALSE,
              !.whole_line = NULL]

\* One turn of the while loop on the byte buf[i].
extract_byte(x) ==
    LET c         == x.buf[x.i + 1]
        in_string == IF c = CH_QUOTE THEN ~x.in_string ELSE x.in_string
        comma     == IF c # CH_QUOTE /\ c = CH_COMMA /\ x.in_string = FALSE
                     THEN x.comma + 1 ELSE x.comma
    IN IF c = CH_NL /\ in_string = FALSE /\ comma >= MIN_COMMAS
       THEN [x EXCEPT !.in_string = in_string, !.comma = comma, !.end = TRUE]
       ELSE [x EXCEPT !.in_string = in_string, !.comma = comma, !.i = x.i + 1]

\* A turn of the while loop if the loop goes on inside the current buffer.
extract_turn(x) ==
    IF x.end # TRUE /\ x.size # 0 /\ x.i < x.size THEN extract_byte(x) ELSE x

\* n turns, one after the other; once the loop has ended no turn follows.
RECURSIVE extract_turns(_, _)
extract_turns(x, n) ==
    IF n = 0 THEN x
    ELSE IF n = 1 THEN extract_turn(x)
    ELSE LET y == extract_turns(x, n \div 2)
         IN IF y.end = TRUE THEN y ELSE extract_turns(y, n - (n \div 2))

\* The turns of the while loop that stay in the current buffer: each one
\* moves i or ends the loop, so there are at most size - i of them.
extract_bytes(x) ==
    IF x.i < x.size THEN extract_turns(x, x.size - x.i) ELSE x

\* Variant: the comma count and the in-string state start again with each
\* buffer.
extract_refill_forgets(x, file) ==
    LET line  == g_strndup(x.buf, x.pos, x.i - x.pos)
        whole == IF x.whole_line # NULL THEN x.whole_line \o line ELSE line
    IN [read_one_buffer(x, file) EXCEPT !.whole_line = whole, !.i = 0,
                                        !.comma = 0, !.in_string = FALSE]

\* The else branch of the loop: the part of the line in this buffer is kept in
\* whole_line and the next buffer is read.
extract_refill(x, file) ==
    LET line  == g_strndup(x.buf, x.pos, x.i - x.pos)
        whole == IF x.whole_line # NULL THEN x.whole_line \o line ELSE line
    IN [read_one_buffer(x, file) EXCEPT !.whole_line = whole, !.i = 0]

\* After the loop: the line is cut out of the buffer, pos goes past the '\n'.
extract_return(x) ==
    LET line  == g_strndup(x.buf, x.pos, x.i - x.pos)
        whole == IF x.whole_line # NULL THEN x.whole_line \o line ELSE line
    IN [x EXCEPT !.whole_line = whole, !.pos = x.i + 1]

\* Variant: the caller takes the line whatever a_buffer->size is.
line_is_taken_always(x) == TRUE

\* get_file_list_from_regex_and_query: the line goes to extract_from_line
\* only if a_buffer->size != 0.
line_is_taken(x) == x.size # 0

\* get_file_list_from_regex_and_query on a file that does not change: the
\* lines handed to extract_from_line, in file order.
RECURSIVE scan_run(_, _, _)
scan_run(x, file, lines) ==
    LET y == extract_bytes(x)
    IN IF y.end # TRUE /\ y.size # 0
       THEN scan_run(extract_refill(y, file), file, lines)
       ELSE LET r     == extract_return(y)
                taken == IF line_is_taken(r) THEN Append(lines, r.whole_line) ELSE lines
            IN IF r.size # 0 THEN scan_run(extract_begin(r), file, taken) ELSE taken

scan_whole_file(file, buffer_size) ==
    scan_run(extract_begin(read_one_buffer(init_buffer_structure(buffer_size), file)),
             file, <<>>)

----------------------------------------------------------------------------
(* The record decoder: extract_from_line and what it calls (file_backend.c).
   The helpers of libcdpfgl (get_substring_from_string, get_uint_from_string,
   the date comparisons, make_hash_data_list_from_string) are taken from
   their description. *)

FirstComma(string) ==
    LET commas == {i \in DOMAIN string : string[i] = CH_COMMA}
    IN CHOOSE i \in commas : \A j \in commas : i <= j

RECURSIVE strsplit_tokens(_, _)
strsplit_tokens(string, max_tokens) ==
    IF max_tokens = 1 \/ CH_COMMA \notin Range(string) THEN <<string>>
    ELSE LET k == FirstComma(string)
         IN <<SubSeq(string, 1, k - 1)>>
                \o strsplit_tokens(SubSeq(string, k + 1, Len(string)), max_tokens - 1)

\* g_strsplit(string, ",", max_tokens): the pieces between the commas, every
\* comma being a delimiter; the last of max_tokens pieces is the remainder.
\* max_tokens < 1 stands for no limit.
g_strsplit(string, max_tokens) ==
    IF string = <<>> THEN <<>>
    ELSE strsplit_tokens(string, IF max_tokens < 1 THEN Len(string) + 1 ELSE max_tokens)

\* params[k] of the NULL-terminated vector, k counted from 0.
param(params, k) == IF k < Len(params) THEN params[k + 1] ELSE NULL

B64Chars == {B64Alphabet[i] : i \in DOMAIN B64Alphabet}

B64Rank(c) == (CHOOSE i \in DOMAIN B64Alphabet : B64Alphabet[i] = c) - 1

\* The sextet of a character of the encoded text; '=' counts as 0.
B64Sextet(c) == IF c = CH_PAD THEN 0 ELSE B64Rank(c)

RECURSIVE b64_groups(_)
b64_groups(chars) ==
    IF Len(chars) < 4 THEN <<>>
    ELSE LET v0 == B64Sextet(chars[1])
             v1 == B64Sextet(chars[2])
             v2 == B64Sextet(chars[3])
             v3 == B64Sextet(chars[4])
             b0 == v0 * 4 + (v1 \div 16)
             b1 == (v1 % 16) * 16 + (v2 \div 4)
             b2 == (v2 % 4) * 64 + v3
         IN <<b0>>
            \o (IF chars[3] # CH_PAD THEN <<b1>> ELSE <<>>)
            \o (IF chars[4] # CH_PAD THEN <<b2>> ELSE <<>>)
            \o b64_groups(SubSeq(chars, 5, Len(chars)))

\* g_base64_decode: characters outside the alphabet are skipped, every four
\* characters give three bytes, less one for each '=' that ends the four.
g_base64_decode(text) ==
    b64_groups(SelectSeq(text, LAMBDA c : c \in B64Chars \cup {CH_PAD}))

\* get_substring_from_string: the field without the space before it and
\* without its outer quotes; base64-decoded when asked.
strip_quotes(string) ==
    LET s1 == IF string # <<>> /\ Head(string) = CH_SPACE THEN Tail(string) ELSE string
        s2 == IF s1 # <<>> /\ Head(s1) = CH_QUOTE THEN Tail(s1) ELSE s1
    IN IF s2 # <<>> /\ s2[Len(s2)] = CH_QUOTE THEN SubSeq(s2, 1, Len(s2) - 1) ELSE s2

get_substring_from_string(string, decode) ==
    IF string = NULL THEN NULL
    ELSE IF decode THEN g_base64_decode(strip_quotes(string))
    ELSE strip_quotes(string)

IsDigit(c) == c >= CH_ZERO /\ c <= CH_ZERO + 9

RECURSIVE skip_spaces(_)
skip_spaces(string) ==
    IF string # <<>> /\ Head(string) \in {CH_SPACE, CH_NL}
    THEN skip_spaces(Tail(string)) ELSE string

RECURSIVE parse_digits(_, _)
parse_digits(string, value) ==
    IF string = <<>> \/ ~IsDigit(Head(string)) THEN value
    ELSE parse_digits(Tail(string), value * 10 + (Head(string) - CH_ZERO))

\* get_uint_from_string, get_guint64_from_string: the unsigned number the
\* field starts with, 0 when it starts with none.
get_uint_from_string(string) ==
    IF string = NULL THEN 0 ELSE parse_digits(skip_spaces(string), 0)

\* make_hash_data_list_from_string: the hashes of the comma-separated tail.
make_hash_data_list_from_string(string) ==
    IF string = NULL THEN <<>>
    ELSE LET tokens == g_strsplit(string, 0)
         IN [k \in DOMAIN tokens |-> get_substring_from_string(tokens[k], TRUE)]

\* A..Z to a..z (G_REGEX_CASELESS).
fold_case(c) == IF c >= 65 /\ c <= 90 THEN c + 32 ELSE c

\* g_regex_match of a caseless regular expression that is a literal text:
\* the text occurs in the string.
g_regex_match(a_regex, string) ==
    \E i \in 0..(Len(string) - Len(a_regex)) :
        \A j \in 1..Len(a_regex) : fold_case(string[i + j]) = fold_case(a_regex[j])

SECONDS_PER_DAY == 86400

\* compare_mtime_to_date: TRUE without a date; else mtime is in the day.
\* A date is <<day>>, days counted from the epoch.
compare_mtime_to_date(mtime, date) ==
    date = NULL \/ mtime \div SECONDS_PER_DAY = date[1]

\* compare_after_before_date: mtime > date (after) or mtime < date.
\* Such a date is <<seconds>>.
compare_after_before_date(mtime, date, after) ==
    IF after THEN mtime > date[1] ELSE mtime < date[1]

date_filters_no_before(mtime, query) ==
    /\ compare_mtime_to_date(mtime, query.date)
    /\ query.afterdate # NULL => compare_after_before_date(mtime, query.afterdate, TRUE)

\* The three date tests of extract_from_line, the last two only when asked.
date_filters(mtime, query) ==
    /\ compare_mtime_to_date(mtime, query.date)
    /\ query.afterdate # NULL => compare_after_before_date(mtime, query.afterdate, TRUE)
    /\ query.beforedate # NULL => compare_after_before_date(mtime, query.beforedate, FALSE)

\* extract_from_line: the meta_data_t of a line, or NULL.
extract_from_line(line, a_regex, query) ==
    IF line = NULL \/ ~(Len(line) > 16) THEN NULL_STRUCT
    ELSE LET params   == g_strsplit(line, 14)
             filename == get_substring_from_string(param(params, 11), TRUE)
             mtime    == get_uint_from_string(param(params, 5))
         IN IF ~g_regex_match(a_regex, filename) THEN NULL_STRUCT
            ELSE IF ~date_filters(mtime, query) THEN NULL_STRUCT
            ELSE IF query.reduced # TRUE
            THEN [new_meta_data_t EXCEPT
                    !.name = filename,
                    !.file_type = get_uint_from_string(param(params, 0)),
                    !.inode = get_uint_from_string(param(params, 1)),
                    !.mode = get_uint_from_string(param(params, 2)),
                    !.atime = get_uint_from_string(param(params, 3)),
                    !.ctime = get_uint_from_string(param(params, 4)),
                    !.mtime = mtime,
                    !.size = get_uint_from_string(param(params, 6)),
                    !.owner = get_substring_from_string(param(params, 7), FALSE),
                    !.group = get_substring_from_string(param(params, 8), FALSE),
                    !.link = get_substring_from_string(param(params, 12), TRUE),
                    !.uid = get_uint_from_string(param(params, 9)),
                    !.gid = get_uint_from_string(param(params, 10)),
                    !.hash_data_list = make_hash_data_list_from_string(param(params, 13))]
            ELSE [new_meta_data_t EXCEPT
                    !.name = filename,
                    !.file_type = get_uint_from_string(param(params, 0)),
                    !.mtime = mtime,
                    !.size = get_uint_from_string(param(params, 6))]

\* The pieces a journal file is made of here: two records as file_store_smeta
\* writes them (the second with a comma and a '\n' in its owner), a record
\* whose owner is a '"', a line of one byte, and the head of a record.
RecordLines ==
    {journal_line(mk_meta(<<111>>, <<47, 97>>, 1000, <<>>)),
     journal_line(mk_meta(<<CH_COMMA, CH_NL>>, <<47, 98>>, 2000, <<1>>))}

ScanPieces ==
    RecordLines
    \cup {journal_line(mk_meta(<<CH_QUOTE>>, <<47, 99>>, 3000, <<>>))}
    \cup {<<120, CH_NL>>}
    \cup {SubSeq(journal_line(mk_meta(<<111>>, <<47, 97>>, 1000, <<>>)), 1, 40)}

ScanContents == {g_strconcat(pieces) : pieces \in SeqsUpTo(ScanPieces, MaxScanLines)}

\* A query_t that selects every record, in full.
QueryAll ==
    [filename |-> <<>>, date |-> NULL, afterdate |-> NULL, beforedate |-> NULL,
     latest |-> FALSE, reduced |-> FALSE]

\* The scan before it starts. Next to the file, the query, the buffer_t and
\* the file list, the history of the scan: the lines taken, the refills
\* inside the current line, whether a taken line spanned two refills or
\* more, whether a read returned bytes of a line that was not yet written to
\* its end.
ScanOpen(file, records, buffer_size) ==
    [pc |-> "open", file |-> file, writing |-> <<>>, pending |-> <<>>,
     records |-> records, appended |-> 0,
     x |-> init_buffer_structure(buffer_size),
     query |-> QueryAll, file_list |-> <<>>, sorted |-> <<>>, answer |-> <<>>,
     lines |-> <<>>, refills |-> 0, spanned |-> FALSE, partial_read |-> FALSE]

reads_partial(x) == scan.pending # <<>> /\ x.size > 0 /\ x.offset = Len(scan.file)

InitScan ==
    /\ InitPipeline
    /\ Running
    /\ \E file \in ScanContents, buffer_size \in BufferSizes :
           scan = ScanOpen(file, <<>>, buffer_size)

\* get_file_list_from_regex_and_query, up to the do loop: init_buffer_structure,
\* the first read_one_buffer, and the entry of extract_one_line_from_buffer.
ScanStart ==
    /\ scan.pc = "open"
    /\ LET x == extract_begin(read_one_buffer(
                     init_buffer_structure(scan.x.buffer_size), scan.file))
       IN scan' = [scan EXCEPT !.pc = "extract", !.x = x,
                               !.partial_read = reads_partial(x)]
    /\ UNCHANGED pipeline_vars

\* extract_one_line_from_buffer reaches the end of the buffer inside a line
\* and reads the next buffer.
ExtractRefill ==
    /\ scan.pc = "extract"
    /\ LET y == extract_bytes(scan.x)
       IN /\ y.end # TRUE /\ y.size # 0
          /\ LET x == extract_refill(y, scan.file)
             IN scan' = [scan EXCEPT !.x = x,
                                     !.refills = Min(@ + 1, 2),
                                     !.partial_read = @ \/ reads_partial(x)]
    /\ UNCHANGED pipeline_vars

\* extract_one_line_from_buffer returns (a line end was found, or the last
\* read returned nothing); the caller takes the line, prepends the
\* meta_data_t that extract_from_line makes of it, if any, and goes on, or
\* stops.
ExtractReturn ==
    /\ scan.pc = "extract"
    /\ LET y == extract_bytes(scan.x)
       IN /\ y.end = TRUE \/ y.size = 0
          /\ LET r == extract_return(y)
                 meta == extract_from_line(r.whole_line, scan.query.filename, scan.query)
             IN scan' = [scan EXCEPT
                    !.lines = IF line_is_taken(r) THEN Append(@, r.whole_line) ELSE @,
                    !.file_list = IF line_is_taken(r) /\ meta # NULL_STRUCT
                                  THEN g_list_prepend(@, meta) ELSE @,
                    !.refills = 0,
                    !.spanned = @ \/ (line_is_taken(r) /\ scan.refills = 2),
                    !.x = IF r.size # 0 THEN extract_begin(r) ELSE r,
                    !.pc = IF r.size # 0 THEN "extract" ELSE "done"]
    /\ UNCHANGED pipeline_vars

NextScan ==
    \/ ScanStart
    \/ ExtractRefill
    \/ ExtractReturn

SpecScan == InitScan /\ [][NextScan]_vars

----------------------------------------------------------------------------
(* A scan whose reads can fail: g_input_stream_read returns -1 and sets the
   error, read_one_buffer prints it and keeps -1 in a_buffer->size. A read
   fails once (scan.read_errors counts them), or the stream is broken and
   every read fails from then on. *)

MaxReadErrors == 1
MaxReadLines == 3

\* The pieces of the journals read here: a line that ends a record (twelve
\* commas and a '\n'), a line of one byte, and the head of a line.
ReadPieces ==
    {<<CH_COMMA, CH_COMMA, CH_COMMA, CH_COMMA, CH_COMMA, CH_COMMA, CH_COMMA, CH_COMMA,
       CH_COMMA, CH_COMMA, CH_COMMA, CH_COMMA, CH_NL>>,
     <<120, CH_NL>>,
     <<120, CH_COMMA>>}

ReadContents == {g_strconcat(pieces) : pieces \in SeqsUpTo(ReadPieces, MaxReadLines)}

\* read_one_buffer when g_input_stream_read fails: size = -1, pos = 0, the
\* bytes of the buffer and the stream's offset are left as they were.
read_one_buffer_fails(x) == [x EXCEPT !.size = -1, !.pos = 0]

\* The else branch of the loop when the read fails.
extract_refill_fails(x) ==
    LET line  == g_strndup(x.buf, x.pos, x.i - x.pos)
        whole == IF x.whole_line # NULL THEN x.whole_line \o line ELSE line
    IN [read_one_buffer_fails(x) EXCEPT !.whole_line = whole, !.i = 0]

InitRead ==
    /\ InitPipeline
    /\ Running
    /\ \E file \in ReadContents, buffer_size \in BufferSizes :
           scan = ScanOpen(file, <<>>, buffer_size) @@ [stream |-> "ok", read_errors |-> 0]

\* The next g_input_stream_read can return an error.
ReadError == scan.stream = "broken" \/ scan.read_errors < MaxReadErrors

\* The device fails: every read of the stream returns an error from now on.
StreamBreaks ==
    /\ scan.pc \in {"open", "extract"}
    /\ scan.stream = "ok"
    /\ scan' = [scan EXCEPT !.stream = "broken"]
    /\ UNCHANGED pipeline_vars

\* get_file_list_from_regex_and_query up to the do loop, the first read fails.
ScanStartFails ==
    /\ scan.pc = "open"
    /\ ReadError
    /\ scan' = [scan EXCEPT
                   !.pc = "extract",
                   !.x = extract_begin(read_one_buffer_fails(
                             init_buffer_structure(scan.x.buffer_size))),
                   !.read_errors = Min(@ + 1, MaxReadErrors)]
    /\ UNCHANGED pipeline_vars

\* extract_one_line_from_buffer reaches the end of the buffer, or finds
\* size = -1, and the read of the next buffer fails.
ExtractRefillFails ==
    /\ scan.pc = "extract"
    /\ ReadError
    /\ LET y == extract_bytes(scan.x)
       IN /\ y.end # TRUE /\ y.size # 0
          /\ scan' = [scan EXCEPT !.x = extract_refill_fails(y),
                                  !.refills = Min(@ + 1, 2),
                                  !.read_errors = Min(@ + 1, MaxReadErrors)]
    /\ UNCHANGED pipeline_vars

\* The while loop of extract_one_line_from_buffer has a byte of the buffer
\* to look at.
InBuffer == scan.x.end # TRUE /\ scan.x.size # 0 /\ scan.x.i < scan.x.size

\* One turn of the while loop on the byte buf[i].
LoopTurn ==
    /\ scan.pc = "extract"
    /\ InBuffer
    /\ scan' = [scan EXCEPT !.x = extract_byte(@)]
    /\ UNCHANGED pipeline_vars

\* The steps of the thread that scans, the while loop turn by turn.
ScanSteps ==
    \/ scan.stream = "ok" /\ ScanStart
    \/ ScanStartFails
    \/ LoopTurn
    \/ ~InBuffer /\ scan.stream = "ok" /\ ExtractRefill
    \/ ~InBuffer /\ ExtractRefillFails
    \/ ~InBuffer /\ ExtractReturn

NextRead ==
    \/ ScanSteps
    \/ StreamBreaks

\* The thread that scans goes on as long as it has a step to take.
SpecRead == InitRead /\ [][NextRead]_vars /\ WF_vars(ScanSteps)

----------------------------------------------------------------------------
(* A scan while file_store_smeta appends: the bytes of its one
   g_output_stream_write reach the file in one or in two parts. *)

MaxAppends == 1

\* How many bytes of a written line a reader may find in the file before the
\* rest: half of them, all but the '\n', or all.
FirstParts(line) == {Len(line) \div 2, Len(line) - 1, Len(line)}

InitQuery ==
    /\ InitPipeline
    /\ Running
    /\ \E records \in SeqsUpTo(RecordLines, 1), buffer_size \in BufferSizes :
           scan = ScanOpen(g_strconcat(records), records, buffer_size)

\* file_store_smeta: g_output_stream_write, the first n bytes are in the file.
WriteBegin(line, n) ==
    /\ scan.pending = <<>>
    /\ scan.appended < MaxAppends
    /\ scan' = [scan EXCEPT !.file = @ \o SubSeq(line, 1, n),
                            !.writing = line,
                            !.pending = SubSeq(line, n + 1, Len(line)),
                            !.appended = @ + 1,
                            !.records = IF n = Len(line) THEN Append(@, line) ELSE @]
    /\ UNCHANGED pipeline_vars

\* file_store_smeta: g_output_stream_write, the rest of the line is in the file.
WriteEnd ==
    /\ scan.pending # <<>>
    /\ scan' = [scan EXCEPT !.file = @ \o scan.pending,
                            !.pending = <<>>,
                            !.records = Append(@, scan.writing)]
    /\ UNCHANGED pipeline_vars

NextQuery ==
    \/ ScanStart
    \/ ExtractRefill
    \/ ExtractReturn
    \/ \E line \in RecordLines : \E n \in FirstParts(line) : WriteBegin(line, n)
    \/ WriteEnd

SpecQuery == InitQuery /\ [][NextQuery]_vars

----------------------------------------------------------------------------
(* file_get_list_of_files: the scan of a journal under a query, then the
   sort, the reduction to the latest versions, and the answer. *)

\* strcmp: -1, 0 or 1.
RECURSIVE strcmp(_, _)
strcmp(a, b) ==
    IF a = <<>> /\ b = <<>> THEN 0
    ELSE IF a = <<>> THEN -1
    ELSE IF b = <<>> THEN 1
    ELSE IF Head(a) < Head(b) THEN -1
    ELSE IF Head(a) > Head(b) THEN 1
    ELSE strcmp(Tail(a), Tail(b))

\* compare_meta_data_t: by name, then by mtime.
compare_meta_data_t(a, b) ==
    LET by_name == strcmp(a.name, b.name)
    IN IF by_name # 0 THEN by_name
       ELSE IF a.mtime < b.mtime THEN -1
       ELSE IF a.mtime > b.mtime THEN 1
       ELSE 0

\* Merging two sorted lists by compare_meta_data_t; of two equal elements
\* the one of the first list comes first.
RECURSIVE g_list_sort_merge(_, _)
g_list_sort_merge(l1, l2) ==
    IF l1 = <<>> THEN l2
    ELSE IF l2 = <<>> THEN l1
    ELSE IF compare_meta_data_t(Head(l1), Head(l2)) <= 0
    THEN <<Head(l1)>> \o g_list_sort_merge(Tail(l1), l2)
    ELSE <<Head(l2)>> \o g_list_sort_merge(l1, Tail(l2))

\* g_list_sort(list, compare_meta_data_t): the merge sort of GLib, which is
\* stable.
RECURSIVE g_list_sort(_)
g_list_sort(list) ==
    IF Len(list) <= 1 THEN list
    ELSE LET half == Len(list) \div 2
         IN g_list_sort_merge(g_list_sort(SubSeq(list, 1, half)),
                              g_list_sort(SubSeq(list, half + 1, Len(list))))

\* The places of a sorted list whose element is the last of its name.
LastOfName(list) == {i \in DOMAIN list : i = Len(list) \/ list[i].name # list[i + 1].name}

RECURSIVE keep_places(_, _, _)
keep_places(list, places, i) ==
    IF i > Len(list) THEN <<>>
    ELSE (IF i \in places THEN <<list[i]>> ELSE <<>>) \o keep_places(list, places, i + 1)

\* keep_latests_meta_data_t_in_list: of the elements of a sorted list that
\* follow each other with the same name, the last one.
keep_latests_meta_data_t_in_list(list) == keep_places(list, LastOfName(list), 1)

MaxListLines == 3

\* The metadata the journals of the list queries were written from: two
\* versions of /a that differ in the owner only, a later version of /a, a
\* file /B, and a file /b whose owner holds a comma and a newline.
MetaA1 == mk_meta(<<111>>, <<47, 97>>, 1000, <<>>)
MetaA2 == mk_meta(<<112>>, <<47, 97>>, 1000, <<>>)
MetaA3 == mk_meta(<<111>>, <<47, 97>>, 90000, <<1>>)
MetaB1 == mk_meta(<<111>>, <<47, 66>>, 2000, <<>>)
MetaComma == mk_meta(<<CH_COMMA, CH_NL>>, <<47, 98>>, 2000, <<1>>)

PlainMetas == {MetaA1, MetaA2, MetaA3, MetaB1}

ListMetas == PlainMetas \cup {MetaComma}

\* A line that is no record.
MalformedLine == <<120, CH_NL>>

ListPieces == {journal_line(meta) : meta \in ListMetas} \cup {MalformedLine}

ListQueries ==
    {[filename |-> filename, date |-> d.date, afterdate |-> d.afterdate,
      beforedate |-> d.beforedate, latest |-> latest, reduced |-> reduced] :
        filename \in {<<>>, <<98>>},
        d \in {[date |-> NULL, afterdate |-> NULL, beforedate |-> NULL],
               [date |-> <<0>>, afterdate |-> NULL, beforedate |-> NULL],
               [date |-> NULL, afterdate |-> <<1000>>, beforedate |-> NULL],
               [date |-> NULL, afterdate |-> NULL, beforedate |-> <<90000>>],
               [date |-> NULL, afterdate |-> <<1000>>, beforedate |-> <<90000>>]},
        latest \in BOOLEAN, reduced \in BOOLEAN}

InitList ==
    /\ InitPipeline
    /\ Running
    /\ \E pieces \in SeqsUpTo(ListPieces, MaxListLines), query \in ListQueries :
           scan = [ScanOpen(g_strconcat(pieces), pieces, Pow2(MaxBufferLog))
                       EXCEPT !.query = query]

\* file_get_list_of_files after the scan: g_list_sort, the reduction when
\* the query asks for the latest versions, and the list that is answered.
FileListAnswer ==
    /\ scan.pc = "done"
    /\ LET file_list == g_list_sort(scan.file_list)
       IN scan' = [scan EXCEPT
              !.pc = "answered",
              !.sorted = file_list,
              !.answer = IF scan.query.latest = TRUE
                         THEN keep_latests_meta_data_t_in_list(file_list)
                         ELSE file_list]
    /\ UNCHANGED pipeline_vars

NextList ==
    \/ ScanStart
    \/ ExtractRefill
    \/ ExtractReturn
    \/ FileListAnswer

SpecList == InitList /\ [][NextList]_vars

----------------------------------------------------------------------------
(* GET /Data/Hash_Array.json: get_data_from_a_list_of_hashs (server.c).
   The codec, concat_buffer and calculate_hash_for_string are taken from
   their description: the codec is opaque. *)

MaxHeader == 2

\* The byte that a read of memory outside a live allocation gives.
JunkBytes == {0, 221}

\* The codec of the model: the compressed form of a text of two bytes
\* <<a, a + 2>> is the one byte a + 100; nothing else is a compressed text.
IsCompressed(data, read) == read = 1 /\ data[1] >= 100 /\ data[1] <= 253

\* uncompress_buffer: the text of the compressed buffer, NULL when the buffer
\* cannot be uncompressed.
uncompress_buffer(data, read, uncmplen, cmptype) ==
    IF IsCompressed(data, read)
    THEN [text |-> <<data[1] - 100, data[1] - 98>>, len |-> 2]
    ELSE NULL_STRUCT

\* The first n bytes at a pointer: the bytes of the allocation, then what
\* lies behind it.
read_bytes(buf, n, junk) ==
    [i \in 1..n |-> IF buf # NULL /\ i <= Len(buf) THEN buf[i] ELSE junk]

\* concat_buffer: a new buffer of size1 + size2 bytes, the first size1 bytes
\* of buf1 followed by the first size2 bytes of buf2.
concat_buffer(buf1, size1, buf2, size2, junk) ==
    read_bytes(buf1, size1, junk) \o SubSeq(buf2, 1, size2)

\* The header that names the hashes of a list, in the list's order.
header_of(list) == convert_hash_data_list_to_gchar(list)

HeaderLists == SeqsUpTo(Hashes, MaxHeader)

HashOfBytes(bytes) == CHOOSE h \in Hashes : hash_bytes(h) = bytes

\* make_hash_data_list_from_string of every header, each hash named by its
\* number.
HeaderHashes ==
    [list \in HeaderLists |->
        LET header_hdl == make_hash_data_list_from_string(header_of(list))
        IN [k \in DOMAIN header_hdl |-> HashOfBytes(header_hdl[k])]]

\* The body of the while loop for one block that was retrieved. The locals
\* are final_buffer, size, concat and buffer_len; freed tells that
\* final_buffer points to memory that was freed: when the block cannot be
\* uncompressed concat and buffer_len keep the values of the round before,
\* final_buffer is freed and set to concat, which is the same pointer.
hash_array_body(s, hash_data, junk) ==
    LET compress == IF hash_data.cmptype = COMPRESS_NONE_TYPE THEN NULL_STRUCT
                    ELSE uncompress_buffer(hash_data.data, hash_data.read,
                                           hash_data.uncmplen, hash_data.cmptype)
        concat == IF hash_data.cmptype = COMPRESS_NONE_TYPE
                  THEN concat_buffer(s.final_buffer, s.size, hash_data.data,
                                     hash_data.read, junk)
                  ELSE IF compress # NULL_STRUCT
                  THEN concat_buffer(s.final_buffer, s.size, compress.text,
                                     compress.len, junk)
                  ELSE s.concat
        buffer_len == IF hash_data.cmptype = COMPRESS_NONE_TYPE THEN hash_data.read
                      ELSE IF compress # NULL_STRUCT THEN compress.len
                      ELSE s.buffer_len
        failed == hash_data.cmptype # COMPRESS_NONE_TYPE /\ compress = NULL_STRUCT
    IN [final_buffer |-> concat, size |-> s.size + buffer_len, concat |-> concat,
        buffer_len |-> buffer_len,
        freed |-> IF failed THEN s.final_buffer # NULL ELSE FALSE]

\* The while loop over the hashes of the header; used tells that a pointer
\* to freed memory was read.
RECURSIVE hash_array_loop(_, _, _, _, _)
hash_array_loop(files, side, header_hdl, s, junk) ==
    IF header_hdl = <<>> THEN s
    ELSE LET hash_data == file_retrieve_data(files, side, Head(header_hdl))
             next == IF hash_data = NULL_STRUCT THEN s
                     ELSE hash_array_body(s, hash_data, junk)
                          @@ [used |-> s.used \/ s.freed]
         IN hash_array_loop(files, side, Tail(header_hdl), next, junk)

\* get_data_from_a_list_of_hashs: the block made of final_buffer and size.
\* When final_buffer was freed the block's bytes are what the freed memory
\* holds, and the free of the block is the second free of that memory: the
\* answer is sent or the process is aborted.
get_data_from_a_list_of_hashs(files, side, list, junk, aborts) ==
    LET s == hash_array_loop(files, side, HeaderHashes[list],
                 [final_buffer |-> NULL, size |-> 0, concat |-> NULL,
                  buffer_len |-> 0, freed |-> FALSE, used |-> FALSE], junk)
        data == read_bytes(s.final_buffer, s.size, junk)
    IN IF aborts /\ (s.freed \/ s.used)
       THEN [route |-> "GET /Data/Hash_Array.json", header |-> list, aborted |-> TRUE]
       ELSE [route |-> "GET /Data/Hash_Array.json", header |-> list, aborted |-> FALSE,
             block |-> [digest_of |-> data, data |-> data, read |-> s.size,
                        cmptype |-> COMPRESS_NONE_TYPE, uncmplen |-> s.size]]

\* GET /Data/Hash_Array.json with the header of a list of hashes.
GetDataHashArray(list) ==
    /\ \E junk \in JunkBytes, aborts \in BOOLEAN :
           answer' = create_MHD_response(
                         get_data_from_a_list_of_hashs(dataFile, sidecar, list, junk, aborts),
                         CT_JSON)
    /\ UNCHANGED <<dataFile, sidecar, journal, data_queue, meta_queue, dt, mt, hist, scan, boot, upload, http>>

\* A block that a client posts as compressed and whose bytes are no
\* compressed text.
CorruptBlocks ==
    {[hash |-> 2, data |-> <<7>>, read |-> 1,
      cmptype |-> COMPRESS_ZLIB_TYPE, uncmplen |-> 2]}

----------------------------------------------------------------------------
(* The handlers on any request, well-formed or not, and the data thread. *)

\* The segments of GET /Data/<segment>.json: the hex of a hash; the same
\* with a '-' inside, with one more hex digit, without its last digit; the
\* hex digits of no hash of a client; two characters.
DataSegments ==
    UNION {{hash_to_string(h),
            SubSeq(hash_to_string(h), 1, 10) \o <<45>> \o SubSeq(hash_to_string(h), 11, HASH_LEN * 2),
            hash_to_string(h) \o <<CH_LOWER_A>>,
            SubSeq(hash_to_string(h), 1, HASH_LEN * 2 - 1)} : h \in Hashes}
    \cup {[i \in 1..(HASH_LEN * 2) |-> CH_ZERO], <<CH_LOWER_A, CH_LOWER_A + 1>>}

InitHttp ==
    /\ InitPipeline
    /\ Running
    /\ scan = ScanIdle

NextHttp ==
    \/ \E hash_data \in Blocks \cup CorruptBlocks : PostData(hash_data)
    \/ \E hash_data_list \in HashLists : PostHashArray(hash_data_list)
    \/ \E list \in HeaderLists : GetDataHashArray(list)
    \/ \E segment \in DataSegments : GetDataUrl(segment)
    \/ GetFileListNoHostname
    \/ \E json \in BOOLEAN : GetUnknown(json)
    \/ \E json \in BOOLEAN : PostUnknown(json)
    \/ \E received_data \in InvalidBodies : PostMetaInvalid(received_data)
    \/ \E received_data \in InvalidBodies : PostHashArrayInvalid(received_data)
    \/ \E received_data \in InvalidBodies : PostDataInvalid(received_data)
    \/ \E received_data \in InvalidBodies : PostDataArrayInvalid(received_data)
    \/ DataThreadPop
    \/ StoreSetMetadata
    \/ StoreNoData
    \/ StoreReplace
    \/ StoreWrite

SpecHttp == InitHttp /\ [][NextHttp]_vars

----------------------------------------------------------------------------
(* Startup: main (server.c) and file_init_backend (file_backend.c).
   boot.disk is the store's root directory as main finds it, boot.created
   what this run of file_init_backend created in it, boot.written the levels
   at which file_store_data has written a block since. create_directory and
   the path of a block (make_path_from_hash) are taken from their
   description. *)

MaxLevel == 6

\* The default of dir-level.
FILE_BACKEND_LEVEL == 2

\* The dir-level of the configuration file; NoLevel when there is no such key
\* or no file.
NoLevel == 0 - 1

DirLevels == 0..MaxLevel \cup {NoLevel}

\* The root directory before the server starts: empty, or left by an
\* earlier run: one that was interrupted while it made the tree (no level is
\* complete, no .done), or the tree of depth 2 or 3 with its .done.
Disks ==
    {[meta |-> FALSE, data |-> FALSE, done |-> FALSE, tree |-> 0]}
    \cup {[meta |-> TRUE, data |-> TRUE, done |-> FALSE, tree |-> 0]}
    \cup {[meta |-> TRUE, data |-> TRUE, done |-> TRUE, tree |-> t] : t \in {2, 3}}

boot_others ==
    <<dataFile, sidecar, journal, data_queue, meta_queue, dt, mt, answer, hist, scan, upload, http>>

InitBoot ==
    /\ InitPipeline
    /\ scan = ScanIdle
    /\ upload = NoUpload
    /\ http = NoHttp
    /\ \E opt_ok \in BOOLEAN, dir_level \in DirLevels, disk \in Disks :
           boot = [pc |-> "init_structure", opt_ok |-> opt_ok, dir_level |-> dir_level,
                   disk |-> disk, file_backend |-> NULL_STRUCT,
                   created |-> [tree |-> 0, done |-> FALSE], error |-> FALSE,
                   written |-> {}, exit_code |-> NoLevel, clean |-> FALSE]

\* read_from_group_file_backend: the level of the file is taken when it is
\* in 1..5, else the level keeps its default.
read_from_group_file_backend(dir_level) ==
    IF dir_level > 0 /\ dir_level < 6 THEN dir_level ELSE FILE_BACKEND_LEVEL

\* make_all_subdirectories: for a level in 2..4 the 256^level directories
\* and then .done; for another level an error is printed.
make_all_subdirectories(disk, level) ==
    IF level < 5 /\ level > 1
    THEN [disk EXCEPT !.tree = IF level > @ THEN level ELSE @, !.done = TRUE]
    ELSE disk

\* main: init_server_main_structure gave no options or no backend: the
\* error is printed and main returns 0.
MainInitFails ==
    /\ boot.pc = "init_structure"
    /\ ~boot.opt_ok
    /\ boot' = [boot EXCEPT !.pc = "exited", !.error = TRUE, !.exit_code = 0]
    /\ UNCHANGED boot_others

\* main: init_server_main_structure succeeded, then file_init_backend: the
\* level, meta/ and data/, and the tree when data/.done is not there.
FileInitBackend ==
    /\ boot.pc = "init_structure"
    /\ boot.opt_ok
    /\ LET level == read_from_group_file_backend(boot.dir_level)
           dirs == [boot.disk EXCEPT !.meta = TRUE, !.data = TRUE]
           disk == IF dirs.done = FALSE THEN make_all_subdirectories(dirs, level) ELSE dirs
       IN boot' = [boot EXCEPT
                      !.pc = "start_daemon",
                      !.file_backend = [level |-> level],
                      !.disk = disk,
                      !.created = [tree |-> IF disk.tree # boot.disk.tree THEN disk.tree ELSE 0,
                                   done |-> disk.done /\ ~boot.disk.done],
                      !.error = dirs.done = FALSE /\ ~(level < 5 /\ level > 1)]
    /\ UNCHANGED boot_others

\* main: the threads are started, then MHD_start_daemon: main returns 1
\* when it gives NULL, else main waits in g_main_loop_run.
StartDaemon(started) ==
    /\ boot.pc = "start_daemon"
    /\ boot' = IF started THEN [boot EXCEPT !.pc = "running"]
               ELSE [boot EXCEPT !.pc = "exited", !.error = TRUE, !.exit_code = 1]
    /\ UNCHANGED boot_others

\* file_store_data on a block while the server runs: the block's file is
\* data/<level bytes of the hash, one directory each>/<rest>; g_file_replace
\* creates it when that directory exists.
BootStoreData ==
    /\ boot.pc = "running"
    /\ boot.file_backend.level <= boot.disk.tree
    /\ boot.file_backend.level \notin boot.written
    /\ boot' = [boot EXCEPT !.written = @ \cup {boot.file_backend.level}]
    /\ UNCHANGED boot_others

\* int_signal_handler on SIGINT or SIGTERM: the main loop is left and main
\* returns 0.
Shutdown ==
    /\ boot.pc = "running"
    /\ boot' = [boot EXCEPT !.pc = "exited", !.exit_code = 0, !.clean = TRUE]
    /\ UNCHANGED boot_others

NextBoot ==
    \/ MainInitFails
    \/ FileInitBackend
    \/ \E started \in BOOLEAN : StartDaemon(started)
    \/ BootStoreData
    \/ Shutdown

SpecBoot == InitBoot /\ [][NextBoot]_vars

----------------------------------------------------------------------------
(* The end of the program (server.c): install_server_signal_traps adds
   int_signal_handler to the main loop once for SIGINT and once for SIGTERM,
   both with the same server_struct. main is in g_main_loop_run: an
   iteration of the loop takes the sources that are ready and dispatches
   each; g_main_loop_quit lets the loop return when the iteration is over,
   then main returns and the process ends with its threads.
   boot.pending are the signals that arrived and were not yet taken by an
   iteration, boot.ready those the running iteration dispatches,
   boot.cleanups counts the calls of free_server_struct_t. *)

Signals == {"SIGINT", "SIGTERM"}

InitSignal ==
    /\ InitPipeline
    /\ scan = ScanIdle
    /\ upload = NoUpload
    /\ http = NoHttp
    /\ boot = [pc |-> "running", pending |-> {}, ready |-> {}, handled |-> {},
               cleanups |-> 0, crashed |-> FALSE]

\* A signal is sent to the process; its source becomes ready. A source whose
\* handler has returned FALSE is removed.
SignalArrives(sig) ==
    /\ boot.pc \in {"running", "dispatch"}
    /\ sig \notin boot.pending \cup boot.ready \cup boot.handled
    /\ boot' = [boot EXCEPT !.pending = @ \cup {sig}]
    /\ UNCHANGED boot_others

\* g_main_loop_run: an iteration starts with the sources that are ready.
MainLoopIterate ==
    /\ boot.pc = "running"
    /\ boot.pending # {}
    /\ boot' = [boot EXCEPT !.pc = "dispatch", !.ready = boot.pending, !.pending = {}]
    /\ UNCHANGED boot_others

\* int_signal_handler: g_main_loop_quit, then free_server_struct_t, which
\* stops the daemon and frees the backend, the options and server_struct; the
\* threads are unreferenced, not stopped. A second call works on the freed
\* structure and frees it again: the process goes on, or is aborted.
int_signal_handler(sig, aborts) ==
    /\ boot.pc = "dispatch"
    /\ sig \in boot.ready
    /\ aborts => boot.cleanups >= 1
    /\ boot' = IF aborts
               THEN [boot EXCEPT !.pc = "exited", !.cleanups = @ + 1, !.crashed = TRUE]
               ELSE [boot EXCEPT !.ready = @ \ {sig}, !.handled = @ \cup {sig},
                                 !.cleanups = @ + 1]
    /\ UNCHANGED boot_others

\* The iteration is over: g_main_loop_run returns, main returns 0.
MainLoopReturns ==
    /\ boot.pc = "dispatch"
    /\ boot.ready = {}
    /\ boot' = [boot EXCEPT !.pc = "exited"]
    /\ UNCHANGED boot_others

\* A thread reads server_struct or its backend after they were freed: the
\* read gives what was there (the thread goes on as before), or the process
\* is aborted.
UseAfterFreeAborts ==
    /\ boot.pc \in {"running", "dispatch"}
    /\ boot.cleanups >= 1
    /\ dt.pc # "pop" \/ mt.pc # "pop"
    /\ boot' = [boot EXCEPT !.pc = "exited", !.crashed = TRUE]
    /\ UNCHANGED boot_others

\* The daemon answers requests until MHD_stop_daemon; the threads run until
\* the process ends.
DaemonRuns == boot.pc \in {"running", "dispatch"} /\ boot.cleanups = 0
ThreadsRun == boot.pc \in {"running", "dispatch"}

NextSignal ==
    \/ \E sig \in Signals : SignalArrives(sig)
    \/ MainLoopIterate
    \/ \E sig \in Signals, aborts \in BOOLEAN : int_signal_handler(sig, aborts)
    \/ MainLoopReturns
    \/ UseAfterFreeAborts
    \/ DaemonRuns /\ \E c \in Conns : PostMeta(c, "alice", EmptyFileMeta, TRUE)
    \/ DaemonRuns /\ \E hash_data \in Blocks : PostData(hash_data)
    \/ ThreadsRun /\ DataThreadPop
    \/ ThreadsRun /\ StoreSetMetadata
    \/ ThreadsRun /\ StoreNoData
    \/ ThreadsRun /\ StoreReplace
    \/ ThreadsRun /\ StoreWrite
    \/ ThreadsRun /\ MetaThreadPop
    \/ ThreadsRun /\ FileStoreSmeta

SpecSignal == InitSignal /\ [][NextSignal]_vars

----------------------------------------------------------------------------
(* The path of a block's file (file_backend.c): file_store_data,
   file_build_needed_hash_list and file_retrieve_data build it with
   make_path_from_hash and build_filename_from_hash. A hash is its HASH_LEN
   bytes here, a path its characters. hash_to_string, string_to_hash and
   make_path_from_hash are taken from their description. boot.level is
   file_backend->level, boot.files the paths the three functions have used. *)

MaxPaths == 2

CH_SLASH == 47

\* "data" under the prefix of the store.
DATA_DIR == <<100, 97, 116, 97>>

g_build_filename(first, second) == first \o <<CH_SLASH>> \o second

\* "%02x"
hex_byte(b) == <<hex_digit(b \div 16), hex_digit(b % 16)>>

\* hash_to_string on the bytes of a hash.
hash_bytes_to_string(a_hash) ==
    [i \in 1..(2 * Len(a_hash)) |-> hex_byte(a_hash[(i + 1) \div 2])[2 - (i % 2)]]

hex_value(c) == IF c >= CH_LOWER_A THEN c - CH_LOWER_A + 10 ELSE c - CH_ZERO

\* string_to_hash: two hex digits give one byte.
string_to_hash(str_hash) ==
    [i \in 1..(Len(str_hash) \div 2) |->
        hex_value(str_hash[2 * i - 1]) * 16 + hex_value(str_hash[2 * i])]

\* make_path_from_hash: path, then one directory for each of the first
\* `level` bytes of the hash.
RECURSIVE make_path_from_hash(_, _, _)
make_path_from_hash(path, hash, level) ==
    IF level = 0 THEN path
    ELSE g_build_filename(make_path_from_hash(path, hash, level - 1), hex_byte(hash[level]))

\* Variant: the file name starts `level` characters into the hex hash.
build_filename_from_hash_skips_level(path, hex_hash, level) ==
    g_build_filename(path, SubSeq(hex_hash, level + 1, Len(hex_hash)))

\* build_filename_from_hash: the file is named hex_hash + level * 2.
build_filename_from_hash(path, hex_hash, level) ==
    g_build_filename(path, SubSeq(hex_hash, level * 2 + 1, Len(hex_hash)))

\* The hashes of the blocks: one hash, the hashes that differ from it in one
\* byte (a byte of a directory, the first bytes of the file name, the last
\* byte), and two hashes whose first two bytes hold the same digits shifted
\* by one place (01 10 and 11 00).
BaseHash == [i \in 1..HASH_LEN |-> (i * 11) % 256]

PathHashes ==
    {BaseHash}
    \cup {[BaseHash EXCEPT ![k] = 255] : k \in {1, 2, 3, 5, 6, HASH_LEN}}
    \cup {[BaseHash EXCEPT ![1] = 1, ![2] = 16], [BaseHash EXCEPT ![1] = 17, ![2] = 0]}

\* The levels that read_from_group_file_backend stores in file_backend->level.
PathLevels == {l \in 0..MaxLevel : read_from_group_file_backend(l) = l}

InitPath ==
    /\ InitPipeline
    /\ scan = ScanIdle
    /\ upload = NoUpload
    /\ http = NoHttp
    /\ \E level \in PathLevels : boot = [pc |-> "store", level |-> level, files |-> {}]

\* The file a function used: which function, for which hash, which path.
used_file(op, hash, filename) ==
    /\ boot.pc = "store"
    /\ Cardinality(boot.files) < MaxPaths
    /\ boot' = [boot EXCEPT !.files = @ \cup {[op |-> op, hash |-> hash, filename |-> filename]}]
    /\ UNCHANGED boot_others

\* file_store_data: path, hex_hash and filename from hash_data->hash.
PathStoreData(hash) ==
    LET path == make_path_from_hash(DATA_DIR, hash, boot.level)
        hex_hash == hash_bytes_to_string(hash)
    IN used_file("put", hash, build_filename_from_hash(path, hex_hash, boot.level))

\* file_build_needed_hash_list: the same three calls, then g_file_query_exists.
PathQueryExists(hash) ==
    LET path == make_path_from_hash(DATA_DIR, hash, boot.level)
        hex_hash == hash_bytes_to_string(hash)
    IN used_file("exists", hash, build_filename_from_hash(path, hex_hash, boot.level))

\* file_retrieve_data: the hash is string_to_hash(hex_hash), the file name
\* comes from the hex_hash of the request (HASH_LEN * 2 hex digits).
PathRetrieveData(hex_hash) ==
    LET hash == string_to_hash(hex_hash)
        path == make_path_from_hash(DATA_DIR, hash, boot.level)
    IN used_file("get", hash, build_filename_from_hash(path, hex_hash, boot.level))

NextPath ==
    \/ \E hash \in PathHashes : PathStoreData(hash)
    \/ \E hash \in PathHashes : PathQueryExists(hash)
    \/ \E hash \in PathHashes : PathRetrieveData(hash_bytes_to_string(hash))

SpecPath == InitPath /\ [][NextPath]_vars

----------------------------------------------------------------------------
(* The body of a POST request: process_post_request and
   get_header_content_length (server.c). upload is the upload_t of the
   connection (buffer, pos, number) with the size of the allocation, and the
   history of the request: the chunks that arrived, the offset each was
   copied at, the highest offset written, what the handler was given.
   libmicrohttpd calls back once with the headers, once for every chunk of
   the body, and once with upload_data_size == 0 when the body is complete;
   with a Content-Length it delivers that many bytes, without one (chunked
   transfer encoding) as many as the client sends. *)

MaxBody == 4
MaxChunk == 2

\* The size of the buffer when Content-Length cannot be used.
DEFAULT_SERVER_BUFFER_SIZE == 2

\* The largest Content-Length that is used for the buffer. The code's limit
\* is 4294967296; the integers of the model are 32 bits wide and the limit
\* is scaled to 2^30, far above every size of a body here.
MaxContentLength == 1073741824

\* The values of the Content-Length header: none, "0" .. "3", and one above
\* the limit.
ContentLengths ==
    {NULL} \cup {fmt_uint(n) : n \in 0..(MaxBody - 1)} \cup {fmt_uint(MaxContentLength + 1)}

\* The chunks of a body: one to MaxChunk bytes, each 'A' or 'B'.
Chunks == SeqsUpTo({65, 66}, MaxChunk) \ {<<>>}

\* A byte of memory that was not written by the request.
UploadJunk == 170

\* sscanf(length, "%" G_GUINT64_FORMAT, &len): the number of conversions and
\* the value.
sscanf_guint64(length) ==
    LET digits == skip_spaces(length)
    IN IF digits # <<>> /\ IsDigit(Head(digits))
       THEN [converted |-> 1, len |-> parse_digits(digits, 0)]
       ELSE [converted |-> 0, len |-> 0]

\* get_header_content_length: the default without the header, when sscanf
\* converts nothing, and when the value is above the limit.
get_header_content_length(length, default_value) ==
    IF length = NULL THEN default_value
    ELSE LET len == IF sscanf_guint64(length).converted <= 0 THEN default_value
                    ELSE sscanf_guint64(length).len
         IN IF len > MaxContentLength \/ len < 0 THEN default_value ELSE len

\* The number of bytes libmicrohttpd delivers for a header: the value of
\* Content-Length, or NoLevel when the size of the body is not known.
remaining_upload_size(length) ==
    IF length = NULL THEN NoLevel ELSE sscanf_guint64(length).len

upload_others ==
    <<dataFile, sidecar, journal, data_queue, meta_queue, dt, mt, hist, scan, boot, http>>

InitUpload ==
    /\ InitPipeline
    /\ scan = ScanIdle
    /\ boot = BootRunning
    /\ upload = NoUpload
    /\ http = NoHttp

\* memcpy(buffer + pos, data, size) and buffer[pos] = c: the bytes at the
\* offsets pos .. pos + size - 1 become data, whatever the allocation is.
memcpy(buffer, pos, data) ==
    [i \in 1..(IF pos + Len(data) > Len(buffer) THEN pos + Len(data) ELSE Len(buffer)) |->
        IF i > pos /\ i <= pos + Len(data) THEN data[i - pos]
        ELSE IF i <= Len(buffer) THEN buffer[i]
        ELSE UploadJunk]

\* process_post_request, pp == NULL: the first callback of a request.
PostFirstCall(length) ==
    /\ upload.pc = "none"
    /\ LET len == get_header_content_length(length, DEFAULT_SERVER_BUFFER_SIZE)
       IN upload' = [pc |-> "receiving", length |-> length, allocated |-> len + 1,
                     allocations |-> 1, buffer |-> <<>>, pos |-> 0, number |-> 0,
                     chunks |-> <<>>, offsets |-> <<>>, high |-> 0,
                     calls |-> 0, received_data |-> NULL]
    /\ answer' = NoAnswer
    /\ UNCHANGED upload_others

\* process_post_request, *upload_data_size != 0: the chunk is copied at pos.
\* A copy that ends behind the allocation writes into memory that is not
\* the buffer's: the process goes on, or it is aborted.
PostChunk(upload_data, aborts) ==
    /\ upload.pc = "receiving"
    /\ upload.pos + Len(upload_data) <= MaxBody
    /\ remaining_upload_size(upload.length) # NoLevel
           => upload.pos + Len(upload_data) <= remaining_upload_size(upload.length)
    /\ aborts => upload.pos + Len(upload_data) > upload.allocated
    /\ upload' = [upload EXCEPT
                      !.pc = IF aborts THEN "aborted" ELSE "receiving",
                      !.buffer = memcpy(@, upload.pos, upload_data),
                      !.pos = @ + Len(upload_data),
                      !.number = @ + 1,
                      !.chunks = Append(@, upload_data),
                      !.offsets = Append(@, upload.pos),
                      !.high = upload.pos + Len(upload_data)]
    /\ answer' = NoAnswer
    /\ UNCHANGED upload_others

\* What a read of size bytes of the buffer gives: the bytes behind the
\* allocation are the ones written there, or what another owner of that
\* memory wrote since.
read_buffer(buffer, size, allocated, overwritten) ==
    [i \in 1..size |-> IF i > allocated /\ overwritten THEN UploadJunk ELSE buffer[i]]

\* process_post_request, *upload_data_size == 0 with pp != NULL: the last
\* callback. buffer[pos] = 0, then process_received_data on a url that it
\* does not know, then the buffer is freed.
PostLastCall(overwritten) ==
    /\ upload.pc = "receiving"
    /\ remaining_upload_size(upload.length) # NoLevel
           => upload.pos = remaining_upload_size(upload.length)
    /\ overwritten => upload.pos + 1 > upload.allocated
    /\ LET buffer == memcpy(upload.buffer, upload.pos, <<0>>)
           received_data == read_buffer(buffer, upload.pos + 1, upload.allocated, overwritten)
       IN /\ upload' = [upload EXCEPT
                            !.pc = "done",
                            !.buffer = buffer,
                            !.high = upload.pos + 1,
                            !.calls = @ + 1,
                            !.received_data = received_data]
          /\ answer' = create_MHD_response(
                            answer_json_error_string("POST unknown", MHD_HTTP_BAD_REQUEST)
                                @@ [json_url |-> FALSE, received_data |-> received_data],
                            CT_PLAIN)
    /\ UNCHANGED upload_others

NextUpload ==
    \/ \E length \in ContentLengths : PostFirstCall(length)
    \/ \E upload_data \in Chunks, aborts \in BOOLEAN : PostChunk(upload_data, aborts)
    \/ \E overwritten \in BOOLEAN : PostLastCall(overwritten)

SpecUpload == InitUpload /\ [][NextUpload]_vars

----------------------------------------------------------------------------
(* The requests and the statistics (server.c): ahc, process_get_request,
   process_post_request, process_received_data and the add_one_* calls on
   server_struct->stats. http.con_cls is *con_cls of each connection ("aptr"
   for &aptr, "pp" for an upload_t), http.req the request a connection is
   serving with the callbacks it got (calls), the responses queued for it
   (queued) and the times it was counted (counted), http.stats the counters.
   The add_one_* functions are taken from their description: each adds one
   to one counter, in one step. The body of a POST is a text that is no
   JSON, so that the handlers answer without pushing to a queue. *)

MaxRequests == 3

URL_VERSION_JSON == <<47, 86, 101, 114, 115, 105, 111, 110, 46, 106, 115, 111, 110>>    \* "/Version.json"
URL_STATS_JSON == <<47, 83, 116, 97, 116, 115, 46, 106, 115, 111, 110>>    \* "/Stats.json"
URL_FILE_LIST_JSON == <<47, 70, 105, 108, 101, 47, 76, 105, 115, 116, 46, 106, 115, 111, 110>>    \* "/File/List.json"
URL_DATA_HASH_ARRAY_JSON == <<47, 68, 97, 116, 97, 47, 72, 97, 115, 104, 95, 65, 114, 114, 97, 121, 46, 106, 115, 111, 110>>    \* "/Data/Hash_Array.json"
URL_DATA == <<47, 68, 97, 116, 97, 47>>    \* "/Data/"
URL_VERSION == <<47, 86, 101, 114, 115, 105, 111, 110>>    \* "/Version"
DOT_JSON_SUFFIX == <<46, 106, 115, 111, 110>>    \* ".json"
URL_META_JSON == <<47, 77, 101, 116, 97, 46, 106, 115, 111, 110>>    \* "/Meta.json"
URL_HASH_ARRAY_JSON == <<47, 72, 97, 115, 104, 95, 65, 114, 114, 97, 121, 46, 106, 115, 111, 110>>    \* "/Hash_Array.json"
URL_DATA_JSON == <<47, 68, 97, 116, 97, 46, 106, 115, 111, 110>>    \* "/Data.json"
URL_DATA_ARRAY_JSON == <<47, 68, 97, 116, 97, 95, 65, 114, 114, 97, 121, 46, 106, 115, 111, 110>>    \* "/Data_Array.json"

\* The urls of the GET requests: the urls of the protocol, then
\* "/Data/0a.json", "/x.json", "/x", "/Stats", "/Version.jsonx.json",
\* "/Data/Hash_Array.jsonx" and "/Version/x".
GetUrls ==
    {URL_VERSION_JSON, URL_STATS_JSON, URL_FILE_LIST_JSON, URL_DATA_HASH_ARRAY_JSON, URL_VERSION,
     <<47, 68, 97, 116, 97, 47, 48, 97, 46, 106, 115, 111, 110>>,
     <<47, 120, 46, 106, 115, 111, 110>>,
     <<47, 120>>,
     <<47, 83, 116, 97, 116, 115>>,
     <<47, 86, 101, 114, 115, 105, 111, 110, 46, 106, 115, 111, 110, 120, 46, 106, 115, 111, 110>>,
     <<47, 68, 97, 116, 97, 47, 72, 97, 115, 104, 95, 65, 114, 114, 97, 121, 46, 106, 115, 111, 110, 120>>,
     <<47, 86, 101, 114, 115, 105, 111, 110, 47, 120>>}

\* The urls of the POST requests: the urls of the protocol, then "/x.json",
\* "/Data.jsonx" and "/Meta".
PostUrls ==
    {URL_META_JSON, URL_HASH_ARRAY_JSON, URL_DATA_JSON, URL_DATA_ARRAY_JSON,
     <<47, 120, 46, 106, 115, 111, 110>>,
     <<47, 68, 97, 116, 97, 46, 106, 115, 111, 110, 120>>,
     <<47, 77, 101, 116, 97>>}

g_str_has_prefix(str, prefix) == IsPrefix(prefix, str)

g_str_has_suffix(str, suffix) ==
    Len(suffix) <= Len(str) /\ SubSeq(str, Len(str) - Len(suffix) + 1, Len(str)) = suffix

\* The counters of req_get_t and req_post_t.
GetCounters ==
    {"stats", "version", "verstxt", "file_list", "data_hash", "data_hash_array", "unk", "unktxt"}
PostCounters == {"meta", "hash_array", "data", "data_array", "unk"}

new_stats_t ==
    [get |-> 0, post |-> 0, unknown |-> 0,
     get_url |-> [k \in GetCounters |-> 0], post_url |-> [k \in PostCounters |-> 0]]

\* add_one_to_get_url_*, once for each counter of the list.
RECURSIVE add_one_to_get_url(_, _)
add_one_to_get_url(stats, counters) ==
    IF counters = <<>> THEN stats
    ELSE add_one_to_get_url([stats EXCEPT !.get_url[Head(counters)] = @ + 1], Tail(counters))

\* add_one_to_post_url_*
add_one_to_post_url(stats, counter) == [stats EXCEPT !.post_url[counter] = @ + 1]

\* Variant: the url that no branch knows is not counted.
get_json_answer_unknown_not_counted(url) ==
    IF g_str_has_prefix(url, URL_VERSION_JSON) THEN <<"version">>
    ELSE IF g_str_has_prefix(url, URL_STATS_JSON) THEN <<"stats">>
    ELSE IF g_str_has_prefix(url, URL_FILE_LIST_JSON) THEN <<"file_list">>
    ELSE IF g_str_has_prefix(url, URL_DATA_HASH_ARRAY_JSON) THEN <<"data_hash_array">>
    ELSE IF g_str_has_prefix(url, URL_DATA) THEN <<"data_hash">>
    ELSE <<>>

\* get_json_answer: the add_one_to_get_url_* calls of the branch taken.
get_json_answer(url) ==
    IF g_str_has_prefix(url, URL_VERSION_JSON) THEN <<"version">>
    ELSE IF g_str_has_prefix(url, URL_STATS_JSON) THEN <<"stats">>
    ELSE IF g_str_has_prefix(url, URL_FILE_LIST_JSON) THEN <<"file_list">>
    ELSE IF g_str_has_prefix(url, URL_DATA_HASH_ARRAY_JSON) THEN <<"data_hash_array">>
    ELSE IF g_str_has_prefix(url, URL_DATA) THEN <<"data_hash">>
    ELSE <<"unk">>

\* get_unformatted_answer: g_strcmp0(url, "/Version") == 0, or unknown.
get_unformatted_answer(url) == IF url = URL_VERSION THEN <<"verstxt">> ELSE <<"unktxt">>

\* process_received_data: the counter of the branch taken; received_data
\* is never NULL.
process_received_data(url) ==
    IF g_str_has_prefix(url, URL_META_JSON) THEN "meta"
    ELSE IF g_str_has_prefix(url, URL_HASH_ARRAY_JSON) THEN "hash_array"
    ELSE IF g_str_has_prefix(url, URL_DATA_JSON) THEN "data"
    ELSE IF g_str_has_prefix(url, URL_DATA_ARRAY_JSON) THEN "data_array"
    ELSE "unk"

NoRequest == [method |-> "none"]

stats_others ==
    <<dataFile, sidecar, journal, data_queue, meta_queue, dt, mt, hist, scan, boot, upload>>

InitStats ==
    /\ InitPipeline
    /\ scan = ScanIdle
    /\ boot = BootRunning
    /\ upload = NoUpload
    /\ http = [pc |-> "serving",
               con_cls |-> [c \in Conns |-> "NULL"],
               req |-> [c \in Conns |-> NoRequest],
               served |-> [c \in Conns |-> 0],
               arrived |-> 0,
               answered |-> [GET |-> 0, POST |-> 0],
               stats |-> new_stats_t]

\* The headers of a request were read on connection c: the callbacks start.
\* *con_cls is what the request before left there.
RequestArrives(c, method, url) ==
    /\ http.req[c] = NoRequest
    /\ http.arrived < MaxRequests
    /\ http' = [http EXCEPT !.req[c] = [method |-> method, url |-> url, calls |-> 0,
                                         queued |-> 0, counted |-> 0],
                            !.arrived = @ + 1]
    /\ answer' = NoAnswer
    /\ UNCHANGED stats_others

\* Variant: *con_cls is left as it is when the request has been answered.
process_get_request_keeps_marker(c) ==
    /\ http.req[c].method = "GET"
    /\ http.req[c].queued = 0
    /\ LET url == http.req[c].url
           json == g_str_has_suffix(url, DOT_JSON_SUFFIX)
           counters == IF json THEN get_json_answer(url) ELSE get_unformatted_answer(url)
       IN IF http.con_cls[c] # "aptr"
          THEN /\ http' = [http EXCEPT !.con_cls[c] = "aptr", !.req[c].calls = @ + 1]
               /\ answer' = NoAnswer
          ELSE /\ http' = [http EXCEPT
                               !.stats = add_one_to_get_url([@ EXCEPT !.get = @ + 1], counters),
                               !.req[c].calls = @ + 1,
                               !.req[c].queued = @ + 1,
                               !.req[c].counted = @ + 1,
                               !.answered.GET = @ + 1]
               /\ answer' = create_MHD_response([route |-> "GET", url |-> url],
                                                IF json THEN CT_JSON ELSE CT_PLAIN)
    /\ UNCHANGED stats_others

\* process_get_request: the first callback sets *con_cls to &aptr and
\* answers nothing; the next one counts the request, builds the answer,
\* resets *con_cls and queues the response.
process_get_request(c) ==
    /\ http.req[c].method = "GET"
    /\ http.req[c].queued = 0
    /\ LET url == http.req[c].url
           json == g_str_has_suffix(url, DOT_JSON_SUFFIX)
           counters == IF json THEN get_json_answer(url) ELSE get_unformatted_answer(url)
       IN IF http.con_cls[c] # "aptr"
          THEN /\ http' = [http EXCEPT !.con_cls[c] = "aptr", !.req[c].calls = @ + 1]
               /\ answer' = NoAnswer
          ELSE /\ http' = [http EXCEPT
                               !.stats = add_one_to_get_url([@ EXCEPT !.get = @ + 1], counters),
                               !.con_cls[c] = "NULL",
                               !.req[c].calls = @ + 1,
                               !.req[c].queued = @ + 1,
                               !.req[c].counted = @ + 1,
                               !.answered.GET = @ + 1]
               /\ answer' = create_MHD_response([route |-> "GET", url |-> url],
                                                IF json THEN CT_JSON ELSE CT_PLAIN)
    /\ UNCHANGED stats_others

\* process_post_request: the first callback allocates the upload_t, a
\* callback with data copies it, the callback without data resets *con_cls
\* and calls process_received_data, which counts the request and answers.
process_post_request(c, upload_data_size) ==
    /\ http.req[c].method = "POST"
    /\ http.req[c].queued = 0
    /\ LET url == http.req[c].url
       IN IF http.con_cls[c] = "NULL"
          THEN /\ upload_data_size = 0
               /\ http' = [http EXCEPT !.con_cls[c] = "pp", !.req[c].calls = @ + 1]
               /\ answer' = NoAnswer
          ELSE IF upload_data_size # 0
          THEN /\ http.req[c].calls < 2
               /\ http' = [http EXCEPT !.req[c].calls = @ + 1]
               /\ answer' = NoAnswer
          ELSE /\ http' = [http EXCEPT
                               !.stats = add_one_to_post_url([@ EXCEPT !.post = @ + 1],
                                                             process_received_data(url)),
                               !.con_cls[c] = "NULL",
                               !.req[c].calls = @ + 1,
                               !.req[c].queued = @ + 1,
                               !.req[c].counted = @ + 1,
                               !.answered.POST = @ + 1]
               /\ answer' = create_MHD_response(
                                 [route |-> "POST", url |-> url,
                                  counter |-> process_received_data(url)],
                                 IF process_received_data(url) \in {"meta", "hash_array"}
                                 THEN CT_JSON ELSE CT_PLAIN)
    /\ UNCHANGED stats_others

\* ahc on another method: the request is counted as unknown and MHD_NO
\* closes the connection.
AhcUnknownMethod(c) ==
    /\ http.req[c].method \notin {"none", "GET", "POST"}
    /\ http' = [http EXCEPT !.stats.unknown = @ + 1,
                            !.req[c] = NoRequest,
                            !.con_cls[c] = "NULL"]
    /\ answer' = NoAnswer
    /\ UNCHANGED stats_others

\* The response was sent: the request is over, the connection is kept.
RequestCompleted(c) ==
    /\ http.req[c].method \in {"GET", "POST"}
    /\ http.req[c].queued >= 1
    /\ http' = [http EXCEPT !.req[c] = NoRequest, !.served[c] = @ + 1]
    /\ answer' = NoAnswer
    /\ UNCHANGED stats_others

NextStats ==
    \/ \E c \in Conns, url \in GetUrls : RequestArrives(c, "GET", url)
    \/ \E c \in Conns, url \in PostUrls : RequestArrives(c, "POST", url)
    \/ \E c \in Conns : RequestArrives(c, "PUT", URL_DATA_JSON)
    \/ \E c \in Conns : process_get_request(c)
    \/ \E c \in Conns, upload_data_size \in {0, 1} : process_post_request(c, upload_data_size)
    \/ \E c \in Conns : AhcUnknownMethod(c)
    \/ \E c \in Conns : RequestCompleted(c)

SpecStats == InitStats /\ [][NextStats]_vars

----------------------------------------------------------------------------
(* Definitions used to state the properties. *)

NeededAnswer ==
    /\ answer.route \in {"POST /Hash_Array.json", "POST /Meta.json"}
    /\ answer.data_sent = FALSE

FirstIndex(list, x) == CHOOSE i \in DOMAIN list : list[i] = x /\ \A j \in 1..(i - 1) : list[j] # x

\* The block that the last completed file_store_data wrote for hash h.
RECURSIVE last_stored(_, _)
last_stored(stored, h) ==
    IF stored = <<>> THEN NULL_STRUCT
    ELSE LET last == stored[Len(stored)].hash_data
         IN IF last.hash = h THEN last
            ELSE last_stored(SubSeq(stored, 1, Len(stored) - 1), h)

PutInProgress(h) == dt.pc # "pop" /\ dt.item.hash_data.hash = h

QueuedIds == {data_queue[i].id : i \in DOMAIN data_queue}
               \cup (IF dt.pc # "pop" THEN {dt.item.id} ELSE {})

StoredIds == {hist.stored[i].id : i \in DOMAIN hist.stored}

MetaPending(hostname) ==
    Cardinality({i \in DOMAIN meta_queue : meta_queue[i].hostname = hostname})
    + (IF mt.pc # "pop" /\ mt.smeta.hostname = hostname THEN 1 ELSE 0)

----------------------------------------------------------------------------
(* Properties of the needed-hash computation. *)

\* C1: the needed-hash list answered by POST /Hash_Array.json and POST
\* /Meta.json holds a hash exactly when the hash is in the posted list and
\* no block file exists for it at the time of the check.
C1_NeededIffMissing ==
    NeededAnswer =>
        \A h \in Hashes :
            h \in Range(answer.hash_list)
                <=> (h \in Range(answer.request) /\ h \notin answer.existing)

C1_Witness ==
    /\ answer.route = "POST /Hash_Array.json"
    /\ answer.existing \cap Range(answer.request) # {}
    /\ answer.hash_list # <<>>

\* C2: the needed-hash list holds each hash at most once and in the order
\* of the hashes' first occurrences in the posted list.
C2_FirstOccurrenceOrder ==
    NeededAnswer =>
        LET out == answer.hash_list
        IN /\ \A i, j \in DOMAIN out : i # j => out[i] # out[j]
           /\ \A i, j \in DOMAIN out :
                  i < j => FirstIndex(answer.request, out[i]) < FirstIndex(answer.request, out[j])

C2_Witness ==
    /\ answer.route = "POST /Hash_Array.json"
    /\ Len(answer.hash_list) = 2
    /\ Len(answer.request) = 3
    /\ answer.request[1] = answer.request[3]
    /\ answer.hash_list[1] > answer.hash_list[2]

----------------------------------------------------------------------------
(* Properties of the block store. *)

\* C3: when the last block stored for a hash has cmptype NONE and uncmplen
\* equal to its length, and no store failed or is under way, GET for the
\* hash returns the block's bytes, cmptype NONE and uncmplen = its length.
C3_PutThenGet ==
    (answer.route = "GET /Data" /\ hist.data_errors = 0) =>
        LET b == last_stored(hist.stored, answer.hash)
        IN (/\ b # NULL_STRUCT
            /\ ~PutInProgress(answer.hash)
            /\ b.cmptype = COMPRESS_NONE_TYPE
            /\ b.uncmplen = b.read)
           => /\ "block" \in DOMAIN answer
              /\ answer.block.data = b.data
              /\ answer.block.read = b.read
              /\ answer.block.cmptype = COMPRESS_NONE_TYPE
              /\ answer.block.uncmplen = b.read

C3_Witness ==
    /\ answer.route = "GET /Data"
    /\ "block" \in DOMAIN answer
    /\ hist.data_errors = 0
    /\ ~PutInProgress(answer.hash)
    /\ last_stored(hist.stored, answer.hash) # NULL_STRUCT
    /\ last_stored(hist.stored, answer.hash).cmptype = COMPRESS_NONE_TYPE
    /\ answer.block.read = 2

\* C4: while the data thread stores a block equal to the one last stored for
\* its hash, no step changes what exists and get return, for any hash.
C4_SecondPutInvisible ==
    [][(/\ dt.pc # "pop"
        /\ hist.data_errors = 0
        /\ last_stored(hist.stored, dt.item.hash_data.hash) = dt.item.hash_data)
       => \A h \in Hashes :
              /\ file_retrieve_data(dataFile', sidecar', h)
                     = file_retrieve_data(dataFile, sidecar, h)
              /\ g_file_query_exists(dataFile', h) = g_file_query_exists(dataFile, h)]_vars

C4_Witness ==
    /\ Len(hist.stored) = 2
    /\ hist.stored[1].hash_data = hist.stored[2].hash_data
    /\ answer.route = "GET /Data"
    /\ "block" \in DOMAIN answer

\* The block as file_store_data keeps it: a compression type that is not
\* allowed is stored as NONE.
as_stored(b) ==
    [b EXCEPT !.cmptype = IF is_compress_type_allowed(b.cmptype) THEN b.cmptype
                          ELSE COMPRESS_NONE_TYPE]

C5_Safety ==
    hist.data_errors = 0 =>
        \A h \in Hashes :
            (last_stored(hist.stored, h) # NULL_STRUCT /\ ~PutInProgress(h))
                => file_retrieve_data(dataFile, sidecar, h)
                       = as_stored(last_stored(hist.stored, h))

----------------------------------------------------------------------------
(* Properties of the ingest pipeline. *)

\* C6: an ingest POST can always be handled to its answer, whatever the
\* queues hold and wherever the two writer threads stand: no step of a
\* writer is needed first.
C6_IngestNeverWaits ==
    hist.posts < MaxPosts =>
        /\ \A c \in Conns, hostname \in Hosts, meta \in PostedMetas, data_sent \in BOOLEAN :
               ENABLED PostMeta(c, hostname, meta, data_sent)
        /\ \A hash_data \in Blocks : ENABLED PostData(hash_data)
        /\ \A hash_data_list \in BlockLists : ENABLED PostDataArray(hash_data_list)

C6_Witness ==
    /\ answer.route = "POST /Data.json"
    /\ Len(data_queue) = MaxArray + 1
    /\ dt.pc = "pop"
    /\ hist.stored = <<>>
    /\ hist.faults = 0

C7_Count ==
    hist.meta_errors = 0 =>
        \A hostname \in Hosts :
            Len(journal[hostname]) + MetaPending(hostname) = hist.accepted[hostname]

\* C7: without write errors, for each host the journal's records plus the
\* host's records waiting in the metadata queue or held by the metadata
\* thread number the accepted POST /Meta.json of the host, and a journal
\* only grows at its end.
C7_AppendedExactlyOnce ==
    /\ [] C7_Count
    /\ [][\A hostname \in Hosts : IsPrefix(journal[hostname], journal'[hostname])]_vars

C7_Witness ==
    \E hostname \in Hosts :
        /\ Len(journal[hostname]) = 1
        /\ MetaPending(hostname) = 1
        /\ hist.accepted[hostname] = 2
        /\ hist.meta_errors = 0

\* C8: in each journal, the records accepted on one connection stand in the
\* order in which their POSTs were accepted, and each line is the line of
\* its record.
C8_ConnectionOrder ==
    \A hostname \in Hosts :
        LET src == hist.journal_src[hostname]
        IN /\ Len(src) = Len(journal[hostname])
           /\ \A i \in DOMAIN src : journal[hostname][i] = journal_line(src[i].meta)
           /\ \A i, j \in DOMAIN src :
                  (i < j /\ src[i].conn = src[j].conn) => src[i].id < src[j].id

C8_Witness ==
    \E hostname \in Hosts :
        LET src == hist.journal_src[hostname]
        IN /\ Len(src) = 2
           /\ src[1].conn = src[2].conn
           /\ journal[hostname][1] # journal[hostname][2]

----------------------------------------------------------------------------
(* Properties of the file-list scan. *)

\* The record's line as the scan delivers it: without its final '\n'.
chomp(line) == SubSeq(line, 1, Len(line) - 1)

C10_BufferSizeIndependent ==
    scan.pc = "done" =>
        scan.lines = scan_whole_file(scan.file, Len(scan.file) + 1)

C10_Witness ==
    /\ scan.pc = "done"
    /\ scan.spanned
    /\ Len(scan.lines) = 2
    /\ \E k \in DOMAIN scan.lines : CH_NL \in Range(scan.lines[k])

----------------------------------------------------------------------------
(* Properties of the record decoder and of the file list. *)

\* The meta_data_t that decoding a record's line should give back: the
\* metadata the line was written from, its hashes as their bytes.
decoded(meta) ==
    [meta EXCEPT !.hash_data_list = [k \in DOMAIN @ |-> hash_bytes(@[k])]]

\* C11: a record whose quoted owner holds a comma (or a comma and a newline)
\* is decoded to the metadata it was written from: the owner with exactly
\* its content, and the fields after it at their places.
C11_QuotedCommaPreserved ==
    \A i \in DOMAIN scan.lines : \A meta \in ListMetas :
        scan.lines[i] = chomp(journal_line(meta))
            => extract_from_line(scan.lines[i], <<>>, QueryAll) = decoded(meta)

\* The metadata a record of the journal was written from.
meta_of(piece) == CHOOSE meta \in ListMetas : journal_line(meta) = piece

\* The query selects a file of this name and mtime.
selects(query, name, mtime) ==
    /\ \E i \in 0..(Len(name) - Len(query.filename)) :
           \A j \in 1..Len(query.filename) :
               fold_case(name[i + j]) = fold_case(query.filename[j])
    /\ query.date # NULL => mtime \div SECONDS_PER_DAY = query.date[1]
    /\ query.afterdate # NULL => mtime > query.afterdate[1]
    /\ query.beforedate # NULL => mtime < query.beforedate[1]

\* What a query answers of a file: all of its metadata, or the four fields
\* of the reduced mode.
projected(query, meta) ==
    IF query.reduced = TRUE
    THEN [new_meta_data_t EXCEPT !.name = meta.name, !.file_type = meta.file_type,
                                 !.mtime = meta.mtime, !.size = meta.size]
    ELSE meta

\* The selected records of the journal, in journal order.
RECURSIVE selected_records(_, _)
selected_records(pieces, query) ==
    IF pieces = <<>> THEN <<>>
    ELSE (IF Head(pieces) # MalformedLine
             /\ selects(query, meta_of(Head(pieces)).name, meta_of(Head(pieces)).mtime)
          THEN <<projected(query, decoded(meta_of(Head(pieces))))>> ELSE <<>>)
         \o selected_records(Tail(pieces), query)

Count(list, x) == Cardinality({i \in DOMAIN list : list[i] = x})

SameElements(l1, l2) ==
    /\ Len(l1) = Len(l2)
    /\ \A i \in DOMAIN l1 : Count(l1, l1[i]) = Count(l2, l1[i])

\* The journal holds a malformed line between two records, and its records
\* have no comma in a quoted field.
MalformedAmongPlain ==
    /\ \E i \in DOMAIN scan.records :
           /\ scan.records[i] = MalformedLine
           /\ i > 1 /\ scan.records[i - 1] # MalformedLine
           /\ i < Len(scan.records) /\ scan.records[i + 1] # MalformedLine
    /\ \A i \in DOMAIN scan.records :
           scan.records[i] # MalformedLine => meta_of(scan.records[i]) \in PlainMetas

\* C12: when a journal holds a malformed line among well-formed records, the
\* scan runs to the end of the journal and the file list holds the selected
\* well-formed records and nothing else: nothing made of the malformed line.
C12_MalformedLineSkipped ==
    (scan.pc = "answered" /\ MalformedAmongPlain)
        => /\ scan.x.offset = Len(scan.file)
           /\ SameElements(scan.sorted, selected_records(scan.records, scan.query))

\* The journal holds well-formed records only, none with a comma in a quoted
\* field: the scan reads them one by one, as they were written.
PlainJournal ==
    \A i \in DOMAIN scan.records :
        scan.records[i] # MalformedLine /\ meta_of(scan.records[i]) \in PlainMetas

versions(list, name, mtime) ==
    SelectSeq(list, LAMBDA m : m.name = name /\ m.mtime = mtime)

\* C14: the file list is sorted by name ascending, then by mtime ascending,
\* and records of the same name and mtime are in the order in which the scan
\* read them from the journal.
C14_SortedStable ==
    (scan.pc = "answered" /\ PlainJournal)
        => LET sel == selected_records(scan.records, scan.query)
           IN /\ \A i, j \in DOMAIN scan.sorted :
                     i < j => LET by_name == strcmp(scan.sorted[i].name, scan.sorted[j].name)
                              IN \/ by_name < 0
                                 \/ by_name = 0 /\ scan.sorted[i].mtime <= scan.sorted[j].mtime
              /\ \A i \in DOMAIN sel :
                     versions(scan.sorted, sel[i].name, sel[i].mtime)
                         = versions(sel, sel[i].name, sel[i].mtime)

\* What extract_from_line makes of a line when nothing is filtered out.
unfiltered(line, reduced) ==
    extract_from_line(line, <<>>, [QueryAll EXCEPT !.reduced = reduced])

\* The records, among the lines the scan has taken, that the query selects
\* by their decoded name and mtime.
RECURSIVE selected_lines(_, _)
selected_lines(lines, query) ==
    IF lines = <<>> THEN <<>>
    ELSE LET meta == unfiltered(Head(lines), query.reduced)
         IN (IF meta # NULL_STRUCT /\ selects(query, meta.name, meta.mtime)
             THEN <<meta>> ELSE <<>>)
            \o selected_lines(Tail(lines), query)

\* C15: in full and in reduced mode, the file list before the reduction to
\* the latest versions holds the record of a line exactly when the decoded
\* name matches the filename regex, whatever the case of its letters, and
\* the mtime passes each of date, afterdate and beforedate that the query
\* gives; it never holds a record whose name does not match.
C15_SelectedIffPredicates ==
    /\ SameElements(scan.file_list, selected_lines(scan.lines, scan.query))
    /\ scan.pc = "answered"
           => SameElements(scan.sorted, selected_lines(scan.lines, scan.query))
    /\ \A k \in DOMAIN scan.sorted :
           selects([QueryAll EXCEPT !.filename = scan.query.filename],
                   scan.sorted[k].name, scan.sorted[k].mtime)

C15_Witness ==
    /\ scan.pc = "answered"
    /\ scan.query.filename = <<98>>
    /\ scan.query.afterdate # NULL
    /\ scan.query.beforedate # NULL
    /\ scan.query.reduced = TRUE
    /\ \E k \in DOMAIN scan.sorted : scan.sorted[k].name = <<47, 66>>
    /\ Len(scan.sorted) < Len(scan.lines)

----------------------------------------------------------------------------
(* Properties of the request handlers. *)

ErrorEnvelope == "error_code" \in DOMAIN answer

\* C16: every error that a handler answers is a JSON error envelope whose
\* code is the HTTP status of the response; GET /Data/<hex>.json for a hash
\* that was never stored is answered with status 404 or 500 and no block.
C16_ErrorStatusMatches ==
    /\ ErrorEnvelope
           => answer.http_status = answer.error_code
    /\ (answer.route = "GET /Data" /\ "segment" \in DOMAIN answer
           /\ answer.retrieve_data
           /\ (answer.hash = 0 \/ ~g_file_query_exists(dataFile, answer.hash)))
           => /\ answer.http_status \in {MHD_HTTP_NOT_FOUND, MHD_HTTP_INTERNAL_SERVER_ERROR}
              /\ "block" \notin DOMAIN answer

\* A step in which a handler of POST gets a body that is no valid JSON, or
\* no valid block or metadata record.
InvalidPost ==
    \E received_data \in InvalidBodies :
        \/ PostMetaInvalid(received_data)
        \/ PostHashArrayInvalid(received_data)
        \/ PostDataInvalid(received_data)
        \/ PostDataArrayInvalid(received_data)

\* C17: a POST whose body is not valid is answered with a BadRequest error
\* and puts nothing on the metadata queue and on the data queue, on each of
\* the four POST urls.
C17_InvalidBodyRejected ==
    [][InvalidPost
          => /\ "error_code" \in DOMAIN answer'
             /\ answer'.error_code = MHD_HTTP_BAD_REQUEST
             /\ UNCHANGED <<meta_queue, data_queue>>]_vars

\* C18: a step that answers POST /Hash_Array.json leaves the block store,
\* the journals, the metadata queue and the data queue as they were.
C18_HashArrayReadsOnly ==
    [][(answer'.route = "POST /Hash_Array.json")
          => UNCHANGED <<dataFile, sidecar, journal, data_queue, meta_queue>>]_vars

C18_Witness ==
    /\ answer.route = "POST /Hash_Array.json"
    /\ answer.hash_list # <<>>
    /\ \E h \in Hashes : g_file_query_exists(dataFile, h)
    /\ meta_queue # <<>>
    /\ hist.stored # <<>>

Rejected == ErrorEnvelope /\ answer.error_code = MHD_HTTP_BAD_REQUEST

DataUrlAnswer == answer.route = "GET /Data" /\ "segment" \in DOMAIN answer

\* C19 as it was stated: the characters of the segment outside [0-9a-f] are
\* stripped, and the request is rejected exactly when what remains has not
\* 64 characters.
C19_Original ==
    DataUrlAnswer
        => (Rejected <=> Len(SelectSeq(answer.segment, IsHex)) # HASH_LEN * 2)

\* C19: GET /Data/<segment>.json is rejected with an error envelope of code
\* 400 exactly when the first 64 characters after /Data/ are not all in
\* [0-9a-f]; a rejected request does not reach the block store, any other
\* does.
C19_RejectedIffNot64Hex ==
    DataUrlAnswer
        => /\ Rejected <=> ~(/\ Len(answer.segment) >= HASH_LEN * 2
                             /\ \A i \in 1..(HASH_LEN * 2) : IsHex(answer.segment[i]))
           /\ Rejected => ~answer.retrieve_data /\ "block" \notin DOMAIN answer
           /\ ~Rejected => answer.retrieve_data

C19_Witness ==
    /\ DataUrlAnswer
    /\ Len(answer.segment) = HASH_LEN * 2 + 1
    /\ \A i \in DOMAIN answer.segment : IsHex(answer.segment[i])
    /\ "block" \in DOMAIN answer

\* C20: a block file that exists still exists after every step, and no
\* answer of needed hashes given in a step names a hash whose file existed
\* before the step.
C20_StoredStaysStored ==
    [][\A h \in Hashes :
          g_file_query_exists(dataFile, h)
              => /\ g_file_query_exists(dataFile', h)
                 /\ (answer'.route \in {"POST /Hash_Array.json", "POST /Meta.json"}
                        => h \notin Range(answer'.hash_list))]_vars

C20_Witness ==
    /\ answer.route = "POST /Meta.json"
    /\ answer.data_sent = FALSE
    /\ \E h \in Range(answer.request) :
           /\ last_stored(hist.stored, h) # NULL_STRUCT
           /\ h \notin Range(answer.hash_list)
           /\ PutInProgress(h)

----------------------------------------------------------------------------
(* Properties of GET /Data/Hash_Array.json. *)

\* The uncompressed content of a block of the store: nothing for a block
\* that is not there or that cannot be uncompressed.
uncompressed_content(h) ==
    LET hash_data == file_retrieve_data(dataFile, sidecar, h)
    IN IF hash_data = NULL_STRUCT THEN <<>>
       ELSE IF hash_data.cmptype = COMPRESS_NONE_TYPE THEN hash_data.data
       ELSE IF IsCompressed(hash_data.data, hash_data.read)
       THEN <<hash_data.data[1] - 100, hash_data.data[1] - 98>>
       ELSE <<>>

RECURSIVE concatenation(_)
concatenation(list) ==
    IF list = <<>> THEN <<>>
    ELSE uncompressed_content(Head(list)) \o concatenation(Tail(list))

HashArrayAnswer == answer.route = "GET /Data/Hash_Array.json"

\* C21: the answer of GET /Data/Hash_Array.json is one block whose data is
\* the concatenation, in the order of the header, of the uncompressed
\* content of the requested blocks, with cmptype NONE and with size and
\* uncmplen equal to the length of that concatenation.
C21_ConcatenationInOrder ==
    HashArrayAnswer
        => /\ "block" \in DOMAIN answer
           /\ answer.block.data = concatenation(answer.header)
           /\ answer.block.cmptype = COMPRESS_NONE_TYPE
           /\ answer.block.read = Len(concatenation(answer.header))
           /\ answer.block.uncmplen = Len(concatenation(answer.header))

----------------------------------------------------------------------------
(* Properties of the content type. *)

\* The urls of the handlers that end in ".json".
JsonRoutes ==
    {"POST /Meta.json", "POST /Hash_Array.json", "POST /Data.json",
     "POST /Data_Array.json", "GET /Data", "GET /Data/Hash_Array.json",
     "GET /File/List.json"}

EndsInJson ==
    \/ answer.route \in JsonRoutes
    \/ "json_url" \in DOMAIN answer /\ answer.json_url

\* C22: the response on a route that ends in .json has a JSON body and the
\* JSON content type, the response on any other route has the content type
\* text/plain; charset=utf-8; for GET and POST, success and error.
C22_ContentTypeByRoute ==
    answer # NoAnswer
        => /\ EndsInJson => answer.content_type = CT_JSON /\ "text" \notin DOMAIN answer
           /\ ~EndsInJson => answer.content_type = CT_PLAIN

----------------------------------------------------------------------------
(* Properties of the startup. *)

LevelRefused ==
    /\ boot.file_backend # NULL_STRUCT
    /\ boot.file_backend.level \notin 2..4

\* C23: when the store is initialised with a level outside 2..4, no fan-out
\* directory and no data/.done is created, and no block is written at that
\* level afterwards.
C23_BadLevelRefused ==
    LevelRefused
        => /\ boot.created.tree = 0
           /\ ~boot.created.done
           /\ boot.file_backend.level \notin boot.written

\* C24: main returns a code other than 0 when the startup failed, and 0 only
\* after a clean shutdown.
C24_ExitCode ==
    boot.pc = "exited"
        => /\ boot.error => boot.exit_code # 0
           /\ boot.exit_code = 0 => boot.clean

----------------------------------------------------------------------------
(* Properties of the writers. *)

DataWriterAtWork == dt.pc \in {"set_metadata", "replace", "write"}

MetaWriterAtWork == mt.pc = "store"

\* C25: every step that writes under data/ is a step of the data thread on
\* the block of the one queue entry it holds, every step that writes under
\* meta/ is a step of the metadata thread on the journal of the one record
\* it holds, a thread takes an entry only when it holds none, and no step of
\* a handler writes under data/ or meta/.
C25_SingleWriters ==
    [][/\ \A h \in Hashes :
              (dataFile'[h] # dataFile[h] \/ sidecar'[h] # sidecar[h])
                  => /\ DataWriterAtWork
                     /\ dt.item.hash_data.hash = h
                     /\ answer' = NoAnswer
                     /\ journal' = journal
       /\ \A host \in Hosts :
              journal'[host] # journal[host]
                  => /\ MetaWriterAtWork
                     /\ mt.smeta.hostname = host
                     /\ answer' = NoAnswer
                     /\ dataFile' = dataFile /\ sidecar' = sidecar
       /\ Len(data_queue') < Len(data_queue) => ~DataWriterAtWork
       /\ Len(meta_queue') < Len(meta_queue) => ~MetaWriterAtWork
       /\ answer' # NoAnswer => UNCHANGED <<dataFile, sidecar, journal>>]_vars

C25_Witness ==
    /\ dt.pc = "write"
    /\ mt.pc = "store"
    /\ data_queue # <<>>
    /\ dataFile[dt.item.hash_data.hash] = <<>>
    /\ answer.route = "GET /Data"

----------------------------------------------------------------------------
(* Properties of the body of a POST request. *)

RECURSIVE total_size(_)
total_size(chunks) ==
    IF chunks = <<>> THEN 0 ELSE Len(Head(chunks)) + total_size(Tail(chunks))

\* C26: the buffer of a request is allocated once, every chunk is copied at
\* the offset that is the total size of the chunks before it, and the
\* handler is called once, on the callback with upload_data_size == 0, with
\* the chunks in their order of arrival followed by a NUL; a request that
\* has begun is not ended otherwise.
C26_BodyIsChunksInOrder ==
    upload.pc # "none"
        => /\ upload.allocations = 1
           /\ \A k \in DOMAIN upload.chunks :
                  upload.offsets[k] = total_size(SubSeq(upload.chunks, 1, k - 1))
           /\ upload.pc \in {"receiving", "done"}
           /\ upload.pc = "receiving" => upload.calls = 0
           /\ upload.pc = "done"
                  => /\ upload.calls = 1
                     /\ upload.received_data = g_strconcat(upload.chunks) \o <<0>>

\* C27: no copy of a chunk and no write of the final NUL goes behind the
\* buffer that the first callback allocated.
C27_WritesInsideBuffer ==
    upload.pc # "none" => upload.high <= upload.allocated

----------------------------------------------------------------------------
(* Properties of a put that fails and of a get during a put. *)

\* What get returns for a hash when the store holds what the last completed
\* put of the hash wrote: not found before the first.
as_last_put(h) ==
    IF last_stored(hist.stored, h) = NULL_STRUCT THEN NULL_STRUCT
    ELSE as_stored(last_stored(hist.stored, h))

\* C28: after a put that failed, get and exists return for every hash that
\* is not being put what they returned before it, that is what the last
\* completed put of the hash wrote: its bytes, its cmptype and its uncmplen.
C28_FailedPutLeavesStore ==
    hist.data_errors > 0
        => \A h \in Hashes :
               ~PutInProgress(h)
                   => /\ file_retrieve_data(dataFile, sidecar, h) = as_last_put(h)
                      /\ g_file_query_exists(dataFile, h) = (as_last_put(h) # NULL_STRUCT)

\* The blocks of the puts of hash h that were completed or are under way.
PutsOf(h) ==
    {hist.stored[i].hash_data : i \in {j \in DOMAIN hist.stored : hist.stored[j].hash_data.hash = h}}
    \cup (IF PutInProgress(h) THEN {dt.item.hash_data} ELSE {})

\* C29: a get that runs while blocks are put and no put has failed returns
\* not found or a block whose bytes, cmptype and uncmplen are those of one
\* put of the hash.
C29_GetSeesOnePut ==
    (answer.route = "GET /Data" /\ "block" \in DOMAIN answer /\ hist.data_errors = 0)
        => \E put \in PutsOf(answer.hash) : answer.block = as_stored(put)

----------------------------------------------------------------------------
(* Properties of the ownership of a posted block. *)

\* C30: a block is in one queue entry at most; a block that the data thread
\* took and is done with, stored or not, has been freed once; a block that
\* is in the queue or in the hands of the data thread has not been freed.
C30_ReleasedOnce ==
    /\ \A i, j \in DOMAIN data_queue : i # j => data_queue[i].id # data_queue[j].id
    /\ dt.pc # "pop" => \A i \in DOMAIN data_queue : data_queue[i].id # dt.item.id
    /\ \A id \in 1..hist.blocks :
           Count(hist.freed, id) = IF id \in QueuedIds THEN 0 ELSE 1

----------------------------------------------------------------------------
(* C31: a write that fails does not stop its writer. The entries leave each
   queue in the order they were enqueued, whatever failed before them, and
   once a write has failed every entry that was or will be enqueued is still
   taken and processed (written, or dropped with its own error). *)

\* The entries each writer has finished with, written or dropped.
data_done == Len(hist.stored) + hist.data_errors
meta_done == hist.meta_errors + Len(hist.journal_src["alice"]) + Len(hist.journal_src["bob"])
meta_accepted == hist.accepted["alice"] + hist.accepted["bob"]

\* The ids of a queue are consecutive and end at the last one enqueued.
InQueueOrder(queue, ids, last) ==
    /\ Len(queue) = Len(ids)
    /\ \A i \in 1..Len(ids) : ids[i] = last - Len(ids) + i

WritersInOrder ==
    /\ InQueueOrder(data_queue, [i \in 1..Len(data_queue) |-> data_queue[i].id], hist.blocks)
    /\ dt.pc # "pop" => dt.item.id = data_done + 1
    /\ data_done + Len(data_queue) + (IF dt.pc = "pop" THEN 0 ELSE 1) = hist.blocks
    /\ meta_done + Len(meta_queue) + (IF mt.pc = "pop" THEN 0 ELSE 1) = meta_accepted
    /\ \A i, j \in 1..Len(meta_queue) : i < j => meta_queue[i].id < meta_queue[j].id
    /\ mt.pc # "pop" => \A i \in 1..Len(meta_queue) : mt.smeta.id < meta_queue[i].id

AllProcessed ==
    /\ data_queue = <<>> /\ dt.pc = "pop" /\ data_done = hist.blocks
    /\ meta_queue = <<>> /\ mt.pc = "pop" /\ meta_done = meta_accepted

C31_FailureDoesNotStopWriter ==
    /\ []WritersInOrder
    /\ (hist.data_errors + hist.meta_errors > 0) ~> AllProcessed

\* Three blocks were enqueued, the write of the second failed, the first and
\* the third are in the store.
C31_Witness ==
    /\ hist.blocks = 3
    /\ hist.faults = 1
    /\ hist.data_errors = 1
    /\ [i \in 1..Len(hist.stored) |-> hist.stored[i].id] = <<1, 3>>
    /\ AllProcessed

----------------------------------------------------------------------------
(* C32: the two queues are bounded. g_async_queue_new gives a queue no
   capacity, so the only limit the model can test is the number of entries
   the clients post: with a capacity, a queue would hold fewer entries than
   the clients have posted once they post more than the capacity. *)

\* The entries the clients of the model can post to each queue.
MaxDataEntries == MaxPosts * MaxArray
MaxMetaEntries == MaxPosts

C32_QueuesBounded ==
    /\ Len(data_queue) < MaxDataEntries
    /\ Len(meta_queue) < MaxMetaEntries

----------------------------------------------------------------------------
(* C33: the needed-hash answer looks at the block files only. A hash of the
   posted list whose block was acknowledged and waits in the data queue, and
   that has no file yet, is answered as needed. *)

WaitingInQueue(h) == {i \in DOMAIN data_queue : data_queue[i].hash_data.hash = h}

C33_QueuedHashStillNeeded ==
    NeededAnswer =>
        \A h \in Range(answer.request) :
            (WaitingInQueue(h) # {} /\ ~g_file_query_exists(dataFile, h))
                => h \in Range(answer.hash_list)

\* Two blocks of the same hash wait in the data queue (two clients were
\* told to upload it and did), and the hash is answered as needed again.
C33_Witness ==
    /\ answer.route = "POST /Hash_Array.json"
    /\ \E h \in Range(answer.hash_list) : Cardinality(WaitingInQueue(h)) = 2
    /\ hist.stored = <<>>

----------------------------------------------------------------------------
(* C34: the path of a block is data/, then one directory of two lowercase
   hex digits for each of the first `level` bytes of its hash, then a file
   named with the remaining hex digits: directories and file name, read in
   order, spell the 64 hex digits of the hash. put, get and exists use the
   same path for the same hash, and different hashes have different paths. *)

\* The parts of a path between its slashes.
RECURSIVE path_parts(_)
path_parts(path) ==
    LET slashes == {i \in DOMAIN path : path[i] = CH_SLASH}
    IN IF slashes = {} THEN <<path>>
       ELSE LET first == CHOOSE i \in slashes : \A j \in slashes : i <= j
            IN <<SubSeq(path, 1, first - 1)>> \o path_parts(SubSeq(path, first + 1, Len(path)))

PathSpellsHash(f) ==
    LET parts == path_parts(f.filename)
    IN /\ Len(parts) = boot.level + 2
       /\ parts[1] = DATA_DIR
       /\ \A d \in 2..(boot.level + 1) : Len(parts[d]) = 2
       /\ g_strconcat(Tail(parts)) = hash_bytes_to_string(f.hash)
       /\ Len(g_strconcat(Tail(parts))) = HASH_LEN * 2
       /\ \A i \in DOMAIN f.filename : IsHex(f.filename[i]) \/ f.filename[i] = CH_SLASH \/ i <= Len(DATA_DIR)

----------------------------------------------------------------------------
(* C35: after file_init_backend, data/.done exists only when every directory
   of the configured level exists; an init that found .done created no
   directory of the tree; an init that did not find it (a first start, or
   the start after an interrupted one) made the whole tree before .done. *)

InitDone == boot.pc \in {"start_daemon", "running", "exited"} /\ boot.file_backend # NULL_STRUCT

FoundSentinel == boot.disk.done /\ ~boot.created.done

C35_SentinelMeansTree ==
    InitDone =>
        /\ boot.disk.done => boot.disk.tree >= boot.file_backend.level
        /\ FoundSentinel => boot.created.tree = 0
        /\ boot.created.done => boot.created.tree = boot.file_backend.level

----------------------------------------------------------------------------
(* C36: when the configuration gives a dir-level that
   read_from_group_file_backend accepts, an init that finds no .done creates
   the tree of that level and .done, so that the directory of every block
   exists when file_store_data runs. *)

AcceptedLevel == read_from_group_file_backend(boot.dir_level) = boot.dir_level

C36_AcceptedLevelHasTree ==
    (InitDone /\ AcceptedLevel /\ ~FoundSentinel) =>
        /\ boot.created.done
        /\ boot.created.tree = boot.file_backend.level
        /\ boot.file_backend.level <= boot.disk.tree

----------------------------------------------------------------------------
(* C37: once a signal handler has freed server_struct and the backend, no
   step of a writer thread reads them (the call of the backend's store
   function, and the read of the queue's field when the loop comes back to
   g_async_queue_pop); and free_server_struct_t runs at most once, also when
   SIGINT and SIGTERM both arrive. *)

\* The steps of the two threads that read server_struct: the call of
\* store_data or store_smeta through server_struct->backend, and the return
\* to server_struct->data_queue or ->meta_queue for the next pop.
ReadsServerStruct ==
    \/ dt.pc = "set_metadata" /\ dt'.pc # "set_metadata"
    \/ dt.pc # "pop" /\ dt'.pc = "pop"
    \/ mt.pc = "store" /\ mt'.pc = "pop"

C37_NoUseAfterCleanup ==
    [][/\ boot.cleanups >= 1 => ~ReadsServerStruct
       /\ boot'.cleanups <= 1]_vars

\* The sum of the counters of a set.
RECURSIVE SumOfCounters(_, _)
SumOfCounters(counters, names) ==
    IF names = {} THEN 0
    ELSE LET k == CHOOSE n \in names : TRUE
         IN counters[k] + SumOfCounters(counters, names \ {k})

\* C38: for every GET request the first callback queues no response and
\* the second queues exactly one; the request is counted exactly once, by
\* the second callback; and *con_cls is NULL again once the request is
\* answered, so that the next request on the connection starts at the
\* first-call step.
C38_GetTwoCallbacks ==
    \A c \in Conns :
        LET r == http.req[c]
        IN /\ r.method = "none" => http.con_cls[c] = "NULL"
           /\ r.method = "GET" =>
                  /\ r.calls <= 2
                  /\ r.calls = 0 => http.con_cls[c] = "NULL" /\ r.queued = 0 /\ r.counted = 0
                  /\ r.calls = 1 => http.con_cls[c] = "aptr" /\ r.queued = 0 /\ r.counted = 0
                  /\ r.calls = 2 => http.con_cls[c] = "NULL" /\ r.queued = 1 /\ r.counted = 1

\* The second GET request of a connection has been answered by its second
\* callback.
C38_Witness ==
    \E c \in Conns :
        /\ http.pc = "serving"
        /\ http.served[c] >= 1
        /\ http.req[c].method = "GET"
        /\ http.req[c].calls = 2
        /\ http.req[c].queued = 1
        /\ http.stats.get = 2

\* C39: the GET counter is the sum of the GET counters of the urls and the
\* number of the GET requests answered, the POST counter is the sum of the
\* POST counters of the urls and the number of the POST requests answered.
C39_TotalsAreSums ==
    http.pc = "serving" =>
        /\ http.stats.get = SumOfCounters(http.stats.get_url, GetCounters)
        /\ http.stats.get = http.answered.GET
        /\ http.stats.post = SumOfCounters(http.stats.post_url, PostCounters)
        /\ http.stats.post = http.answered.POST

\* Three requests are over: a GET of an unknown json url, a GET of an
\* unknown text url and a POST to an unknown url.
C39_Witness ==
    /\ http.pc = "serving"
    /\ \A c \in Conns : http.req[c] = NoRequest
    /\ http.stats.get = 2
    /\ http.stats.post = 1
    /\ http.stats.get_url["unk"] = 1
    /\ http.stats.get_url["unktxt"] = 1
    /\ http.stats.post_url["unk"] = 1

\* C40: a scan of a finite journal ends: every call of the line extractor
\* returns and the do loop is left, whether the journal is empty, ends
\* inside a line, or a read of it returns an error.
C40_ScanTerminates == <>(scan.pc = "done")

====
